---------------------------- MODULE Spec2Model ----------------------------
(* Model of the mammogram analysis front end (frontend/src/App.js,        *)
(* AppContent) together with the analysis back end it talks to.           *)
(*                                                                        *)
(* Strings that the code inspects character by character (file names)    *)
(* are sequences of one-character strings.  JavaScript values that may   *)
(* be absent are tagged records: Undefined, Null, Num(n), Str(s).        *)
(* Numbers are fixed-point integers in units of 1/Scale.                 *)
EXTENDS Integers, Sequences, FiniteSets, Bags, TLC

VARIABLES
  results,            \* useState({})           App.js:84
  file,               \* useState(null)         App.js:85
  dragActive,         \* useState(false)        App.js:86
  analysisDone,       \* useState(false)        App.js:87
  visualTab,          \* useState("overlay")    App.js:88
  detailsTab,         \* useState("clinical")   App.js:89
  isAnalyzing,        \* useState(false)        App.js:90
  isGeneratingReport, \* useState(false)        App.js:91
  statusMessage,      \* useState("")           App.js:92
  errorMessage,       \* useState("")           App.js:93
  uploadHistory,      \* useState([])           App.js:95
  storedHistory,      \* localStorage item 'uploadHistory'
  now,                \* the last value Date.now() returned
  readers,            \* FileReader loads in progress (handleFileChange)
  historyLoads,       \* fetch(historyItem.data) in progress (uploadFromHistory)
  requests,           \* /analyze calls in flight (suspended analyzeFile closures)
  reports,            \* /report calls in flight (suspended handleDownloadReport closures)
  clearTimers,        \* pending setTimeout(() => setStatusMessage(""), 3000)
  lastOp,             \* the handler that ran last, with its argument and locals
  setup,              \* a run of setup_and_run.sh: position, environment, steps done
  startup,            \* a run of backend/startup.sh: position, environment, output
  render,             \* a run of the Render start script: position, model file, output
  auth,               \* AuthProvider: user, token, loading, sessionStorage, calls in flight
  location,           \* the path the router matches (App.js:10-33)
  page                \* the page's hostname and environment, and the API bases made of them

vars == <<results, file, dragActive, analysisDone, visualTab, detailsTab,
          isAnalyzing, isGeneratingReport, statusMessage, errorMessage,
          uploadHistory, storedHistory, now, readers, historyLoads,
          requests, reports, clearTimers, lastOp, setup, startup, render,
          auth, location, page>>

-----------------------------------------------------------------------------
(* Bounds *)

MaxChunks == 2        \* a file name is built from at most this many chunks
MaxInFlight == 2      \* /analyze calls in flight at the same time
MaxTimers == 2        \* pending status-clearing timers
MaxNow == 1           \* Date.now() returns 0..MaxNow
MaxComponents == 2    \* connected components of an activation field

-----------------------------------------------------------------------------
(* JavaScript values *)

Undefined == [t |-> "undefined"]
Null == [t |-> "null"]
Num(n) == [t |-> "num", v |-> n]
Str(s) == [t |-> "str", v |-> s]

IsNullish(x) == x = Undefined \/ x = Null
IsNum(x) == x.t = "num"

\* a ?? b
Coalesce(a, b) == IF IsNullish(a) THEN b ELSE a

\* ToBoolean(x) for the values that occur: nullish, numbers, strings
\* and objects (records without a tag "t" are never passed here).
Truthy(x) ==
  CASE x.t = "undefined" -> FALSE
    [] x.t = "null" -> FALSE
    [] x.t = "num" -> x.v # 0
    [] x.t = "str" -> x.v # ""
    [] OTHER -> TRUE

\* a || b
OrElse(a, b) == IF Truthy(a) THEN a ELSE b

-----------------------------------------------------------------------------
(* Character strings *)

RECURSIVE Concat(_)
Concat(ss) == IF ss = <<>> THEN <<>> ELSE Head(ss) \o Concat(Tail(ss))

\* String.prototype.includes
Includes(s, pat) ==
  \E i \in 0..(Len(s) - Len(pat)) : SubSeq(s, i + 1, i + Len(pat)) = pat

UpperChar(c) ==
  CASE c = "l" -> "L"
    [] c = "m" -> "M"
    [] c = "o" -> "O"
    [] c = "c" -> "C"
    [] c = "r" -> "R"
    [] OTHER -> c

\* String.prototype.toUpperCase
ToUpperCase(s) == [i \in 1..Len(s) |-> UpperChar(s[i])]

-----------------------------------------------------------------------------
(* File names *)

Chars(str) ==
  CASE str = "LMLO" -> <<"L", "M", "L", "O">>
    [] str = "LEFT_MLO" -> <<"L", "E", "F", "T", "_", "M", "L", "O">>
    [] str = "L-MLO" -> <<"L", "-", "M", "L", "O">>
    [] str = "RMLO" -> <<"R", "M", "L", "O">>
    [] str = "RIGHT_MLO" -> <<"R", "I", "G", "H", "T", "_", "M", "L", "O">>
    [] str = "R-MLO" -> <<"R", "-", "M", "L", "O">>
    [] str = "LCC" -> <<"L", "C", "C">>
    [] str = "LEFT_CC" -> <<"L", "E", "F", "T", "_", "C", "C">>
    [] str = "L-CC" -> <<"L", "-", "C", "C">>
    [] str = "RCC" -> <<"R", "C", "C">>
    [] str = "RIGHT_CC" -> <<"R", "I", "G", "H", "T", "_", "C", "C">>
    [] str = "R-CC" -> <<"R", "-", "C", "C">>
    [] str = "MLO" -> <<"M", "L", "O">>
    [] str = "CC" -> <<"C", "C">>
    [] str = "L" -> <<"L">>
    [] str = "R" -> <<"R">>
    [] str = "C" -> <<"C">>
    [] str = "-" -> <<"-">>
    [] str = "_" -> <<"_">>
    [] str = "x" -> <<"x">>
    [] str = "l-mlo" -> <<"l", "-", "m", "l", "o">>
    [] str = "rcc" -> <<"r", "c", "c">>
    [] str = "patient_L-MLO_01.png" ->
         <<"p", "a", "t", "i", "e", "n", "t", "_", "L", "-", "M", "L", "O",
           "_", "0", "1", ".", "p", "n", "g">>
    [] str = "scan.png" -> <<"s", "c", "a", "n", ".", "p", "n", "g">>
    [] str = "RCC.png" -> <<"R", "C", "C", ".", "p", "n", "g">>

\* The pieces file names are put together from: every pattern the code
\* looks for, single letters and separators that complete or break a
\* pattern across a piece boundary, and lower-case spellings.
Chunks ==
  { Chars(str) : str \in
      { "LMLO", "LEFT_MLO", "L-MLO", "RMLO", "RIGHT_MLO", "R-MLO",
        "LCC", "LEFT_CC", "L-CC", "RCC", "RIGHT_CC", "R-CC", "MLO", "CC",
        "L", "R", "C", "-", "_", "x", "l-mlo", "rcc" } }

RECURSIVE NamesOf(_)
NamesOf(n) ==
  IF n = 0 THEN { <<>> }
  ELSE LET shorter == NamesOf(n - 1)
       IN shorter \cup { c \o s : c \in Chunks, s \in shorter }

\* All file names of at most MaxChunks pieces, and the name of the
\* documented example.
FileNames == NamesOf(MaxChunks) \cup { Chars("patient_L-MLO_01.png") }

\* The files of a session in which analyses overlap.
SessionFiles == { Chars("patient_L-MLO_01.png"), Chars("scan.png") }

-----------------------------------------------------------------------------
(* View code from the file name *)

NoCode == "none"     \* extractViewCodeFromFilename returns null

ViewCodes == { "L-MLO", "R-MLO", "LCC", "RCC", "MLO", "CC" }

AnyIncludes(s, pats) == \E p \in pats : Includes(s, Chars(p))

\* extractViewCodeFromFilename with the generic patterns tested first.
extractViewCodeGenericFirst(filename) ==
  LET upperName == ToUpperCase(filename)
  IN IF Includes(upperName, Chars("MLO")) THEN "MLO"
     ELSE IF Includes(upperName, Chars("CC")) THEN "CC"
     ELSE IF AnyIncludes(upperName, { "LMLO", "LEFT_MLO", "L-MLO" }) THEN "L-MLO"
     ELSE IF AnyIncludes(upperName, { "RMLO", "RIGHT_MLO", "R-MLO" }) THEN "R-MLO"
     ELSE IF AnyIncludes(upperName, { "LCC", "LEFT_CC", "L-CC" }) THEN "LCC"
     ELSE IF AnyIncludes(upperName, { "RCC", "RIGHT_CC", "R-CC" }) THEN "RCC"
     ELSE NoCode

\* extractViewCodeFromFilename with the right-side patterns tested
\* before the left-side ones.
extractViewCodeRightFirst(filename) ==
  LET upperName == ToUpperCase(filename)
  IN IF AnyIncludes(upperName, { "RMLO", "RIGHT_MLO", "R-MLO" }) THEN "R-MLO"
     ELSE IF AnyIncludes(upperName, { "LMLO", "LEFT_MLO", "L-MLO" }) THEN "L-MLO"
     ELSE IF AnyIncludes(upperName, { "RCC", "RIGHT_CC", "R-CC" }) THEN "RCC"
     ELSE IF AnyIncludes(upperName, { "LCC", "LEFT_CC", "L-CC" }) THEN "LCC"
     ELSE IF Includes(upperName, Chars("MLO")) THEN "MLO"
     ELSE IF Includes(upperName, Chars("CC")) THEN "CC"
     ELSE NoCode

extractViewCodeFromFilename(filename) ==
  LET upperName == ToUpperCase(filename)
  IN IF AnyIncludes(upperName, { "LMLO", "LEFT_MLO", "L-MLO" }) THEN "L-MLO"
     ELSE IF AnyIncludes(upperName, { "RMLO", "RIGHT_MLO", "R-MLO" }) THEN "R-MLO"
     ELSE IF AnyIncludes(upperName, { "LCC", "LEFT_CC", "L-CC" }) THEN "LCC"
     ELSE IF AnyIncludes(upperName, { "RCC", "RIGHT_CC", "R-CC" }) THEN "RCC"
     ELSE IF Includes(upperName, Chars("MLO")) THEN "MLO"
     ELSE IF Includes(upperName, Chars("CC")) THEN "CC"
     ELSE NoCode

\* SideOf without the test for the letter R.
SideOfIgnoringR(viewCode, left, right) ==
  IF Includes(Chars(viewCode), <<"L">>) THEN left ELSE right

\* viewCode.includes('L') && !viewCode.includes('R') ? left : right
SideOf(viewCode, left, right) ==
  IF Includes(Chars(viewCode), <<"L">>) /\ ~Includes(Chars(viewCode), <<"R">>)
  THEN left ELSE right

\* The provisional view_analysis object of handleFileChange / handleDrop.
ProvisionalView(viewCode) ==
  [ view_code |-> viewCode,
    laterality |-> SideOf(viewCode, "Left", "Right"),
    laterality_code |-> SideOf(viewCode, "L", "R"),
    image_quality |-> "Analyzing...",
    quality_score |-> Null ]

-----------------------------------------------------------------------------
(* Numbers *)

Scale == 10 ^ 5                  \* a number n is the integer n * Scale
Percent(n) == n * Scale          \* the number n
Fraction(thousandths) == thousandths * (Scale \div 1000)

\* Number.prototype.toFixed(digits) for digits in {1, 2}: the nearest
\* multiple of 10^-digits.
ToFixed(v, digits) ==
  LET step == IF digits = 1 THEN Scale \div 10 ELSE Scale \div 100
  IN ((v + step \div 2) \div step) * step

-----------------------------------------------------------------------------
(* The analysis back end: POST /analyze.                                  *)
(* A scan is what the classifier and the activation map extractor yield   *)
(* for an image: the malignant probability prob (a percentage), the       *)
(* connected components of the thresholded activation field, each with    *)
(* its peak activation (in [0,1]) and its share of the image area (a      *)
(* percentage), and the view family guessed from the image geometry.      *)

MinAreaPercent == 1 * Scale      \* components below this area are discarded

\* RiskLevelOf with bands closed at the upper end.
RiskLevelUpperClosed(prob) ==
  IF prob <= Percent(10) THEN "Very Low Risk"
  ELSE IF prob <= Percent(25) THEN "Low Risk"
  ELSE IF prob <= Percent(50) THEN "Moderate Risk"
  ELSE IF prob <= Percent(75) THEN "High Risk"
  ELSE "Very High Risk"

RiskLevelOf(prob) ==
  IF prob < Percent(10) THEN "Very Low Risk"
  ELSE IF prob < Percent(25) THEN "Low Risk"
  ELSE IF prob < Percent(50) THEN "Moderate Risk"
  ELSE IF prob < Percent(75) THEN "High Risk"
  ELSE "Very High Risk"

\* A confidence equal to a cut-off takes the lower severity.
SeverityOf(confidence) ==
  IF confidence > Percent(70) THEN "high"
  ELSE IF confidence > Percent(50) THEN "medium"
  ELSE "low"

\* Stable insertion of component c into a list ordered by descending peak.
RECURSIVE InsertByPeak(_, _)
InsertByPeak(c, list) ==
  IF list = <<>> THEN <<c>>
  ELSE IF c.peak > Head(list).peak THEN <<c>> \o list
  ELSE <<Head(list)>> \o InsertByPeak(c, Tail(list))

RECURSIVE SortByPeak(_)
SortByPeak(list) ==
  IF list = <<>> THEN <<>>
  ELSE InsertByPeak(list[Len(list)], SortByPeak(SubSeq(list, 1, Len(list) - 1)))

\* Region Detector: drop small components, rank by peak, number 1..N.
DetectRegions(components) ==
  LET kept == SelectSeq(components, LAMBDA c : c.area >= MinAreaPercent)
      ranked == SortByPeak(kept)
  IN [ i \in 1..Len(ranked) |->
         [ id |-> i,
           confidence |-> ranked[i].peak * 100,
           severity |-> SeverityOf(ranked[i].peak * 100),
           area_percentage |-> ranked[i].area ] ]

MaxPeak(components) ==
  IF components = <<>> THEN 0
  ELSE CHOOSE m \in { components[i].peak : i \in 1..Len(components) } :
         \A i \in 1..Len(components) : components[i].peak <= m

BackendFindings(scan) ==
  LET regions == DetectRegions(scan.components)
  IN [ summary |-> Str(IF regions = <<>> THEN "No suspicious regions."
                       ELSE "Suspicious regions found."),
       regions |-> regions,
       num_regions |-> Num(Len(regions)),
       high_attention_percentage |-> Num(scan.attention),
       max_activation |-> Num(MaxPeak(scan.components)),
       overall_activation |-> Num(scan.mean) ]

\* View & Laterality Classifier: file-name tokens first, image geometry
\* when the name has none.
BackendView(filename, scan) ==
  LET named == extractViewCodeFromFilename(filename)
      code == IF named # NoCode THEN named ELSE scan.geometry
      mlo == Includes(Chars(code), Chars("MLO"))
  IN [ view_code |-> code,
       laterality |-> SideOf(code, "Left", "Right"),
       laterality_code |-> SideOf(code, "L", "R"),
       image_quality |-> "Good",
       quality_score |-> Num(Percent(80)),
       axillary_findings |-> IF mlo THEN Str("No axillary findings") ELSE Undefined,
       pectoral_muscle_visibility |-> IF mlo THEN Str("Adequate") ELSE Undefined,
       asymmetry |-> IF mlo THEN Undefined ELSE Str("No asymmetry"),
       skin_nipple_changes |-> IF mlo THEN Undefined ELSE Str("None") ]

Blob(kind, filename) == [ t |-> "blob", kind |-> kind, of |-> filename ]

\* The JSON body of a successful /analyze response for the image in
\* the file called filename.
BackendAnalyze(filename, scan) ==
  [ images |-> [ original |-> Blob("original", filename),
                 overlay |-> Blob("overlay", filename),
                 heatmap_only |-> Blob("heatmap_only", filename),
                 bbox |-> Blob("bbox", filename),
                 cancer_type |-> Blob("cancer_type", filename) ],
    malignant_prob |-> Num(scan.prob),
    benign_prob |-> Num(Percent(100) - scan.prob),
    confidence |-> Num(scan.prob \div 100),
    threshold |-> Num(Fraction(500)),
    risk_level |-> Str(RiskLevelOf(scan.prob)),
    risk_icon |-> Str("icon"),
    risk_color |-> Str("color"),
    result |-> Str(IF scan.prob \div 100 > Fraction(500) THEN "Malignant" ELSE "Benign"),
    stats |-> [ t |-> "object" ],
    findings |-> BackendFindings(scan),
    view_analysis |-> BackendView(filename, scan) ]

-----------------------------------------------------------------------------
(* analyzeFile: from the response body to the result record *)

\* asDataUrl(value)
asDataUrl(value) ==
  IF IsNullish(value) THEN Null ELSE [ t |-> "dataurl", v |-> value ]

NoImages ==
  [ original |-> Undefined, overlay |-> Undefined, heatmap_only |-> Undefined,
    bbox |-> Undefined, cancer_type |-> Undefined ]

\* ConfidencePercent that scales only the values below 1.
ConfidencePercentBelowOne(confidence) ==
  LET n == IF confidence = Null THEN 0 ELSE confidence.v
  IN IF confidence # Undefined /\ n < Scale
     THEN Num(n * 100)
     ELSE Coalesce(confidence, Null)

\* data.confidence !== undefined && data.confidence <= 1
\*   ? data.confidence * 100 : data.confidence ?? null
\* (in a numeric comparison or product null counts as 0).
ConfidencePercent(confidence) ==
  LET n == IF confidence = Null THEN 0 ELSE confidence.v
  IN IF confidence # Undefined /\ n <= Scale
     THEN Num(n * 100)
     ELSE Coalesce(confidence, Null)

\* The object literal resultData (App.js:349-367).
ResultData(data) ==
  LET images == IF IsNullish(data.images) THEN NoImages ELSE data.images
  IN [ original |-> asDataUrl(images.original),
       overlay |-> asDataUrl(images.overlay),
       heatmap |-> asDataUrl(images.heatmap_only),
       bbox |-> asDataUrl(images.bbox),
       cancer_type |-> asDataUrl(images.cancer_type),
       malignant |-> Coalesce(data.malignant_prob, Null),
       benign |-> Coalesce(data.benign_prob, Null),
       risk |-> Coalesce(data.risk_level, Str("Unavailable")),
       riskIcon |-> data.risk_icon,
       riskColor |-> data.risk_color,
       result |-> Coalesce(data.result, Str("Analysis Result")),
       confidence |-> ConfidencePercent(data.confidence),
       rawScore |-> Coalesce(data.confidence, Null),
       threshold |-> Coalesce(data.threshold, Num(Fraction(500))),
       stats |-> IF IsNullish(data.stats) THEN [ t |-> "object" ] ELSE data.stats,
       findings |-> IF IsNullish(data.findings) THEN Null ELSE data.findings,
       view_analysis |-> IF IsNullish(data.view_analysis) THEN Null
                         ELSE data.view_analysis ]

\* useState({}): every key is missing.
EmptyResults ==
  [ original |-> Undefined, overlay |-> Undefined, heatmap |-> Undefined,
    bbox |-> Undefined, cancer_type |-> Undefined, malignant |-> Undefined,
    benign |-> Undefined, risk |-> Undefined, riskIcon |-> Undefined,
    riskColor |-> Undefined, result |-> Undefined, confidence |-> Undefined,
    rawScore |-> Undefined, threshold |-> Undefined, stats |-> Undefined,
    findings |-> Undefined, view_analysis |-> Undefined ]

\* The message the catch block of analyzeFile shows for an error with the
\* given name and message (App.js:387-395).
TimeoutMessage == "Request timed out. The backend server may be starting up (this can take 1-2 minutes on free hosting). Please try again."
CannotConnectMessage == "Cannot connect to backend. Please check if the backend is running and CORS is enabled."

AnalyzeErrorMessage(name, message) ==
  IF name = "AbortError" THEN TimeoutMessage
  ELSE IF message \in { "Failed to fetch", "NetworkError when attempting to fetch resource." }
       THEN CannotConnectMessage
  ELSE IF message # "" THEN message
  ELSE "Backend not reachable."

-----------------------------------------------------------------------------
(* State *)

-----------------------------------------------------------------------------
(* AuthProvider values (context/AuthContext, App.js:1595-1699) *)

Emails == { "ann", "bob" }

\* The body of GET /auth/me for the account, and the access_token that
\* POST /auth/login/json returns for it.
UserOf(email) == [ t |-> "object", email |-> email ]
AccessTokenOf(email) == Str("token-" \o email)

\* JSON.stringify(userData)
JSON_stringify(userData) == "{email:" \o userData.email \o "}"

\* JSON.parse(text): the value, or a SyntaxError when text is not JSON.
JSON_parse(text) ==
  IF \E email \in Emails : text = JSON_stringify(UserOf(email))
    THEN [ threw |-> FALSE,
           value |-> UserOf(CHOOSE email \in Emails :
                              text = JSON_stringify(UserOf(email))) ]
    ELSE [ threw |-> TRUE, name |-> "SyntaxError" ]

\* sessionStorage.getItem gives null for an item that is not there.
NoSession == [ token |-> Null, user |-> Null ]

\* useState(null), useState(true), useState(null)  (App.js:1596-1598);
\* mounted is "no" before the first render, "rendered" until the effect
\* has run, then "ready", or "unmounted" when the effect threw.
Unmounted ==
  [ mounted |-> "no", user |-> Null, loading |-> TRUE, token |-> Null,
    sessionStorage |-> NoSession, calls |-> EmptyBag, returned |-> Undefined ]

NoFile == <<"null">>     \* file === null (no file name is this sequence)

Init ==
  /\ results = EmptyResults
  /\ file = NoFile
  /\ dragActive = FALSE
  /\ analysisDone = FALSE
  /\ visualTab = "overlay"
  /\ detailsTab = "clinical"
  /\ isAnalyzing = FALSE
  /\ isGeneratingReport = FALSE
  /\ statusMessage = ""
  /\ errorMessage = ""
  /\ uploadHistory = <<>>
  /\ storedHistory = <<>>
  /\ now = 0
  /\ readers = {}
  /\ historyLoads = {}
  /\ requests = EmptyBag
  /\ reports = {}
  /\ clearTimers = 0
  /\ lastOp = [ op |-> "mount" ]
  /\ setup = [ pc |-> "not run" ]
  /\ startup = [ pc |-> "not run" ]
  /\ render = [ pc |-> "not run" ]
  /\ auth = Unmounted
  /\ location = "/"
  /\ page = [ loaded |-> FALSE ]

scriptVars == <<setup, startup, render>>
authVars == <<auth, location, page>>
historyVars == <<uploadHistory, storedHistory, now, readers, historyLoads>>
tabVars == <<visualTab, detailsTab>>
reportVars == <<isGeneratingReport, reports, clearTimers>>

\* The upload section is rendered (App.js:564); otherwise the results.
UploadScreen == ~analysisDone

-----------------------------------------------------------------------------
(* analyzeFile *)

InFlight == BagToSet(requests)

\* analyzeFile(selectedFile) up to the first await: the state updates of
\* App.js:313-315 and the fetch with its 120 s abort timer.  A request is
\* in phase "fetch" until fetch() settles (the timer is armed), then in
\* phase "body" while response.json() is pending (the timer is cleared,
\* App.js:334); expired says that 120 s have passed since the call.
\* requests is a bag: two calls for the same file may be in flight.
NewRequest(selectedFile) ==
  [ file |-> selectedFile, phase |-> "fetch", ok |-> TRUE, expired |-> FALSE ]

analyzeFile(selectedFile) ==
  /\ BagCardinality(requests) < MaxInFlight
  /\ isAnalyzing' = TRUE
  /\ statusMessage' = "Uploading image for analysis..."
  /\ errorMessage' = ""
  /\ requests' = requests (+) SetToBag({ NewRequest(selectedFile) })

\* Request r leaves phase "fetch" or is marked expired.
Moved(r, next) == (requests (-) SetToBag({r})) (+) SetToBag({next})

\* AnalyzeCatch with a catch block that also discards the results.
AnalyzeCatchClearing(r, name, message) ==
  /\ errorMessage' = AnalyzeErrorMessage(name, message)
  /\ statusMessage' = ""
  /\ results' = EmptyResults
  /\ isAnalyzing' = FALSE
  /\ requests' = requests (-) SetToBag({r})
  /\ lastOp' = [ op |-> "analyzeFailed", arg |-> r.file, error |-> name ]
  /\ UNCHANGED <<file, dragActive, scriptVars, authVars, analysisDone, tabVars, historyVars, reportVars>>

\* The catch and finally blocks (App.js:384-401).
AnalyzeCatch(r, name, message) ==
  /\ errorMessage' = AnalyzeErrorMessage(name, message)
  /\ statusMessage' = ""
  /\ isAnalyzing' = FALSE
  /\ requests' = requests (-) SetToBag({r})
  /\ lastOp' = [ op |-> "analyzeFailed", arg |-> r.file, error |-> name ]
  /\ UNCHANGED <<results, file, dragActive, scriptVars, authVars, analysisDone, tabVars,
                 historyVars, reportVars>>

\* fetch() resolves with a response whose status is OK or not; the
\* abort timer is cleared.
FetchResolves(r, ok) ==
  /\ r \in InFlight /\ r.phase = "fetch"
  /\ requests' = Moved(r, [ r EXCEPT !.phase = "body", !.ok = ok ])
  /\ lastOp' = [ op |-> "fetchResolved", arg |-> r.file ]
  /\ UNCHANGED <<results, file, dragActive, scriptVars, authVars, analysisDone, tabVars, isAnalyzing,
                 statusMessage, errorMessage, historyVars, reportVars>>

\* fetch() rejects: the network failed.
FetchRejects(r) ==
  /\ r \in InFlight /\ r.phase = "fetch"
  /\ AnalyzeCatch(r, "TypeError", "Failed to fetch")

\* 120 s after the call.  While the timer is armed it aborts the fetch,
\* which rejects with an AbortError; once cleared nothing happens.
BudgetExpires(r) ==
  /\ r \in InFlight /\ ~r.expired
  /\ IF r.phase = "fetch"
     THEN AnalyzeCatch(r, "AbortError", "The user aborted a request.")
     ELSE /\ requests' = Moved(r, [ r EXCEPT !.expired = TRUE ])
          /\ lastOp' = [ op |-> "budgetExpired", arg |-> r.file ]
          /\ UNCHANGED <<results, file, dragActive, scriptVars, authVars, analysisDone, tabVars,
                         isAnalyzing, statusMessage, errorMessage,
                         historyVars, reportVars>>

\* response.json() of an OK response resolves with data (App.js:342-383).
AnalyzeSucceeds(r, data) ==
  /\ r \in InFlight /\ r.phase = "body" /\ r.ok
  /\ results' = ResultData(data)
  /\ analysisDone' = TRUE
  /\ visualTab' = "overlay"
  /\ detailsTab' = "clinical"
  /\ statusMessage' = "Analysis complete."
  /\ isAnalyzing' = FALSE
  /\ requests' = requests (-) SetToBag({r})
  /\ lastOp' = [ op |-> "analyzeSucceeded", arg |-> r.file, data |-> data ]
  /\ UNCHANGED <<file, dragActive, scriptVars, authVars, errorMessage, historyVars, reportVars>>

\* The body of an OK response is the JSON value null: data.images throws.
AnalyzeNullBody(r) ==
  /\ r \in InFlight /\ r.phase = "body" /\ r.ok
  /\ AnalyzeCatch(r, "TypeError", "Cannot read properties of null (reading 'images')")

\* The body of an OK response is not JSON: response.json() rejects.
AnalyzeBodyUnreadable(r) ==
  /\ r \in InFlight /\ r.phase = "body" /\ r.ok
  /\ AnalyzeCatch(r, "SyntaxError", "Unexpected end of JSON input")

\* String(detail) for the detail values of ErrorDetails.
DetailText(detail) ==
  IF detail.t = "str" THEN detail.v ELSE ""

\* The details an error body may carry: none (or an unreadable body,
\* which the code replaces by {}), a text, an empty array.
ErrorDetails == { Undefined, Str("Model not loaded"), [ t |-> "array" ] }

\* A response that is not OK (App.js:336-340):
\* throw new Error(errorBody.detail || `Server error: ${response.status}`)
AnalyzeServerError(r, detail) ==
  /\ r \in InFlight /\ r.phase = "body" /\ ~r.ok
  /\ AnalyzeCatch(r, "Error",
                  IF Truthy(detail) THEN DetailText(detail) ELSE "Server error: 500")

-----------------------------------------------------------------------------
(* File selection *)

\* setResults(prev => ({...prev, view_analysis: {...}})) when the name
\* yields a view code (App.js:217-229, 275-287).
InstallView(viewCode) ==
  IF viewCode # NoCode
  THEN results' = [ results EXCEPT !.view_analysis = ProvisionalView(viewCode) ]
  ELSE results' = results

\* onChange of the file input; the input is disabled while isAnalyzing.
handleFileChange(selectedFile) ==
  /\ UploadScreen /\ ~isAnalyzing
  /\ file' = selectedFile
  /\ readers' = readers \cup {selectedFile}
  /\ InstallView(extractViewCodeFromFilename(selectedFile))
  /\ analyzeFile(selectedFile)
  /\ lastOp' = [ op |-> "handleFileChange", arg |-> selectedFile,
                 viewCode |-> extractViewCodeFromFilename(selectedFile) ]
  /\ UNCHANGED <<dragActive, scriptVars, authVars, analysisDone, tabVars, uploadHistory,
                 storedHistory, now, historyLoads, reportVars>>

\* onDrop of the drop zone, which is never disabled.
handleDrop(droppedFile) ==
  /\ UploadScreen
  /\ dragActive' = FALSE
  /\ file' = droppedFile
  /\ InstallView(extractViewCodeFromFilename(droppedFile))
  /\ analyzeFile(droppedFile)
  /\ lastOp' = [ op |-> "handleDrop", arg |-> droppedFile,
                 viewCode |-> extractViewCodeFromFilename(droppedFile) ]
  /\ UNCHANGED <<analysisDone, tabVars, historyVars, reportVars, scriptVars, authVars>>

handleDragOver ==
  /\ UploadScreen
  /\ dragActive' = TRUE
  /\ lastOp' = [ op |-> "handleDragOver" ]
  /\ UNCHANGED <<results, file, scriptVars, authVars, analysisDone, tabVars, isAnalyzing,
                 statusMessage, errorMessage, historyVars, requests, reportVars>>

handleDragLeave ==
  /\ UploadScreen
  /\ dragActive' = FALSE
  /\ lastOp' = [ op |-> "handleDragLeave" ]
  /\ UNCHANGED <<results, file, scriptVars, authVars, analysisDone, tabVars, isAnalyzing,
                 statusMessage, errorMessage, historyVars, requests, reportVars>>

\* "Analyze Another Image" on the results screen.
handleBackToUpload ==
  /\ ~UploadScreen
  /\ analysisDone' = FALSE
  /\ results' = EmptyResults
  /\ file' = NoFile
  /\ visualTab' = "overlay"
  /\ detailsTab' = "clinical"
  /\ statusMessage' = ""
  /\ errorMessage' = ""
  /\ lastOp' = [ op |-> "handleBackToUpload" ]
  /\ UNCHANGED <<dragActive, scriptVars, authVars, isAnalyzing, historyVars, requests, reportVars>>

VisualTabs == { "overlay", "heatmap", "bbox", "original" }
DetailsTabs == { "clinical", "nextSteps", "risk", "heatmapInfo" }

setVisualTab(tab) ==
  /\ ~UploadScreen
  /\ visualTab' = tab
  /\ lastOp' = [ op |-> "setVisualTab" ]
  /\ UNCHANGED <<results, file, dragActive, scriptVars, authVars, analysisDone, detailsTab,
                 isAnalyzing, statusMessage, errorMessage, historyVars,
                 requests, reportVars>>

setDetailsTab(tab) ==
  /\ ~UploadScreen
  /\ detailsTab' = tab
  /\ lastOp' = [ op |-> "setDetailsTab" ]
  /\ UNCHANGED <<results, file, dragActive, scriptVars, authVars, analysisDone, visualTab,
                 isAnalyzing, statusMessage, errorMessage, historyVars,
                 requests, reportVars>>

-----------------------------------------------------------------------------
(* Upload history *)

Take(list, n) == SubSeq(list, 1, IF Len(list) < n THEN Len(list) ELSE n)

HistoryLimit == 5

\* SavedHistory keeping the earlier entry of the same name.
SavedHistoryKeepingName(fileName, t) ==
  Take(<<[ id |-> t, name |-> fileName ]>> \o uploadHistory, HistoryLimit)

\* saveToHistory(fileName, fileData) with Date.now() = t (App.js:113-127).
SavedHistory(fileName, t) ==
  Take(<<[ id |-> t, name |-> fileName ]>>
         \o SelectSeq(uploadHistory, LAMBDA h : h.name # fileName),
       HistoryLimit)

\* reader.onload of handleFileChange: the file was read, it is saved.
ReaderLoads(fileName) ==
  /\ fileName \in readers
  /\ readers' = readers \ {fileName}
  /\ \E t \in now..(IF now < MaxNow THEN now + 1 ELSE now) :
       /\ now' = t
       /\ uploadHistory' = SavedHistory(fileName, t)
       /\ storedHistory' = SavedHistory(fileName, t)
  /\ lastOp' = [ op |-> "saveToHistory", arg |-> fileName ]
  /\ UNCHANGED <<results, file, dragActive, scriptVars, authVars, analysisDone, tabVars, isAnalyzing,
                 statusMessage, errorMessage, historyLoads, requests, reportVars>>

\* The "Recent Uploads" list is rendered (App.js:612).
HistoryShown == UploadScreen /\ uploadHistory # <<>> /\ file = NoFile

removeFromHistory(id) ==
  /\ HistoryShown
  /\ \E i \in 1..Len(uploadHistory) : uploadHistory[i].id = id
  /\ uploadHistory' = SelectSeq(uploadHistory, LAMBDA h : h.id # id)
  /\ storedHistory' = SelectSeq(uploadHistory, LAMBDA h : h.id # id)
  /\ lastOp' = [ op |-> "removeFromHistory", arg |-> id ]
  /\ UNCHANGED <<results, file, dragActive, scriptVars, authVars, analysisDone, tabVars, isAnalyzing,
                 statusMessage, errorMessage, now, readers, historyLoads,
                 requests, reportVars>>

\* uploadFromHistory(historyItem): starts fetch(historyItem.data).
uploadFromHistory(i) ==
  /\ HistoryShown
  /\ i \in 1..Len(uploadHistory)
  /\ historyLoads' = historyLoads \cup { uploadHistory[i].name }
  /\ lastOp' = [ op |-> "uploadFromHistory", arg |-> uploadHistory[i].name ]
  /\ UNCHANGED <<results, file, dragActive, scriptVars, authVars, analysisDone, tabVars, isAnalyzing,
                 statusMessage, errorMessage, uploadHistory, storedHistory, now,
                 readers, requests, reportVars>>

\* The stored image was turned into a File: setFile, analyzeFile.
HistoryLoaded(fileName) ==
  /\ fileName \in historyLoads
  /\ historyLoads' = historyLoads \ {fileName}
  /\ file' = fileName
  /\ analyzeFile(fileName)
  /\ lastOp' = [ op |-> "historyLoaded", arg |-> fileName ]
  /\ UNCHANGED <<results, dragActive, scriptVars, authVars, analysisDone, tabVars, uploadHistory,
                 storedHistory, now, readers, reportVars>>

\* fetch(historyItem.data) or res.blob() rejected.
HistoryLoadFails(fileName) ==
  /\ fileName \in historyLoads
  /\ historyLoads' = historyLoads \ {fileName}
  /\ errorMessage' = "Failed to load image from history"
  /\ lastOp' = [ op |-> "historyLoadFailed", arg |-> fileName ]
  /\ UNCHANGED <<results, file, dragActive, scriptVars, authVars, analysisDone, tabVars, isAnalyzing,
                 statusMessage, uploadHistory, storedHistory, now, readers,
                 requests, reportVars>>

-----------------------------------------------------------------------------
(* PDF report *)

\* "Download PDF Report" on the results screen, disabled while a report
\* is being generated (App.js:404-426).  downloads to come are the
\* reports in flight: each uploads the file selected at the click.
handleDownloadReport ==
  /\ ~UploadScreen /\ ~isGeneratingReport
  /\ IF file = NoFile
     THEN /\ errorMessage' = "Please upload a file before requesting the report."
          /\ UNCHANGED <<isGeneratingReport, statusMessage, reports>>
     ELSE /\ isGeneratingReport' = TRUE
          /\ errorMessage' = ""
          /\ statusMessage' = "Generating report..."
          /\ reports' = reports \cup { [ file |-> file, phase |-> "fetch", ok |-> TRUE ] }
  /\ lastOp' = [ op |-> "handleDownloadReport", arg |-> file ]
  /\ UNCHANGED <<results, file, dragActive, scriptVars, authVars, analysisDone, tabVars, isAnalyzing,
                 historyVars, requests, clearTimers>>

ReportFetchResolves(q, ok) ==
  /\ q \in reports /\ q.phase = "fetch"
  /\ reports' = (reports \ {q}) \cup { [ q EXCEPT !.phase = "body", !.ok = ok ] }
  /\ lastOp' = [ op |-> "reportFetchResolved", arg |-> q.file ]
  /\ UNCHANGED <<results, file, dragActive, scriptVars, authVars, analysisDone, tabVars, isAnalyzing,
                 isGeneratingReport, statusMessage, errorMessage, historyVars,
                 requests, clearTimers>>

\* The catch and finally blocks (App.js:457-462).
ReportCatch(q, message) ==
  /\ errorMessage' = IF message # "" THEN message
                     ELSE "Error while downloading report. Check console for details."
  /\ isGeneratingReport' = FALSE
  /\ reports' = reports \ {q}
  /\ lastOp' = [ op |-> "reportFailed", arg |-> q.file ]
  /\ UNCHANGED <<results, file, dragActive, scriptVars, authVars, analysisDone, tabVars, isAnalyzing,
                 statusMessage, historyVars, requests, clearTimers>>

ReportFetchRejects(q) ==
  /\ q \in reports /\ q.phase = "fetch"
  /\ ReportCatch(q, "Failed to fetch")

ReportServerError(q, detail) ==
  /\ q \in reports /\ q.phase = "body" /\ ~q.ok
  /\ ReportCatch(q, IF Truthy(detail) THEN DetailText(detail)
                    ELSE "Failed to generate report.")

\* response.blob() resolves: the PDF is saved, the status message is set
\* and a timer is started that clears it 3 s later (App.js:437-456).
ReportDownloaded(q) ==
  /\ q \in reports /\ q.phase = "body" /\ q.ok
  /\ clearTimers < MaxTimers
  /\ statusMessage' = "Report downloaded successfully!"
  /\ clearTimers' = clearTimers + 1
  /\ isGeneratingReport' = FALSE
  /\ reports' = reports \ {q}
  /\ lastOp' = [ op |-> "reportDownloaded", arg |-> q.file ]
  /\ UNCHANGED <<results, file, dragActive, scriptVars, authVars, analysisDone, tabVars, isAnalyzing,
                 errorMessage, historyVars, requests>>

\* setTimeout(() => setStatusMessage(""), 3000) fires.
StatusTimerFires ==
  /\ clearTimers > 0
  /\ clearTimers' = clearTimers - 1
  /\ statusMessage' = ""
  /\ lastOp' = [ op |-> "statusTimer" ]
  /\ UNCHANGED <<results, file, dragActive, scriptVars, authVars, analysisDone, tabVars, isAnalyzing,
                 isGeneratingReport, errorMessage, historyVars, requests, reports>>

-----------------------------------------------------------------------------
(* A session in which analyses, history loads and report downloads        *)
(* overlap.                                                               *)

Component(peakThousandths, areaPercent) ==
  [ peak |-> Fraction(peakThousandths), area |-> Percent(areaPercent) ]

Scan(prob, components, geometry) ==
  [ prob |-> prob, components |-> components, attention |-> Percent(3),
    mean |-> Fraction(120), geometry |-> geometry ]

\* One image with a suspicious region and one without.
SessionScans ==
  { Scan(Percent(82), << Component(820, 3) >>, "CC"),
    Scan(Percent(5), << >>, "CC") }

Next ==
  \/ \E f \in SessionFiles : handleFileChange(f)
  \/ \E f \in SessionFiles : handleDrop(f)
  \/ handleBackToUpload
  \/ \E tab \in VisualTabs : setVisualTab(tab)
  \/ \E tab \in DetailsTabs : setDetailsTab(tab)
  \/ \E r \in InFlight, ok \in BOOLEAN : FetchResolves(r, ok)
  \/ \E r \in InFlight : FetchRejects(r)
  \/ \E r \in InFlight : BudgetExpires(r)
  \/ \E r \in InFlight, scan \in SessionScans :
       AnalyzeSucceeds(r, BackendAnalyze(r.file, scan))
  \/ \E r \in InFlight : AnalyzeNullBody(r)
  \/ \E r \in InFlight : AnalyzeBodyUnreadable(r)
  \/ \E r \in InFlight, detail \in ErrorDetails : AnalyzeServerError(r, detail)

Spec == Init /\ [][Next]_vars

-----------------------------------------------------------------------------
(* The first file of a session, for every file name: the file is chosen   *)
(* or dropped, read for the history, and its analysis ends without a      *)
(* response.                                                              *)

FirstPick == file = NoFile

NextView ==
  \/ \E f \in FileNames : FirstPick /\ handleFileChange(f)
  \/ \E f \in FileNames : FirstPick /\ handleDrop(f)
  \/ FirstPick /\ handleDragOver
  \/ FirstPick /\ handleDragLeave
  \/ \E f \in readers : ReaderLoads(f)
  \/ \E r \in InFlight : FetchRejects(r)
  \/ \E r \in InFlight : BudgetExpires(r)

SpecView == Init /\ [][NextView]_vars

-----------------------------------------------------------------------------
(* View code and laterality from the file name *)

SelectionOps == { "handleFileChange", "handleDrop" }

\* A file was just chosen or dropped.
Selected == lastOp.op \in SelectionOps

\* The vocabulary, in the order of precedence.
CodeOrder == << "L-MLO", "R-MLO", "LCC", "RCC", "MLO", "CC" >>

Vocabulary(code) ==
  CASE code = "L-MLO" -> { "LMLO", "LEFT_MLO", "L-MLO" }
    [] code = "R-MLO" -> { "RMLO", "RIGHT_MLO", "R-MLO" }
    [] code = "LCC" -> { "LCC", "LEFT_CC", "L-CC" }
    [] code = "RCC" -> { "RCC", "RIGHT_CC", "R-CC" }
    [] code = "MLO" -> { "MLO" }
    [] code = "CC" -> { "CC" }

\* name matches the vocabulary entry of code, whatever the case of its letters
Matches(name, code) ==
  \E pattern \in Vocabulary(code) : Includes(ToUpperCase(name), Chars(pattern))

MatchedRanks(name) == { i \in 1..Len(CodeOrder) : Matches(name, CodeOrder[i]) }

EarliestMatch(name) ==
  IF MatchedRanks(name) = {} THEN NoCode
  ELSE CodeOrder[CHOOSE i \in MatchedRanks(name) : \A j \in MatchedRanks(name) : i <= j]

\* C1: the view code taken from a file name is the earliest entry, in the
\* order L-MLO, R-MLO, LCC, RCC, MLO, CC, that the name matches without
\* regard to case; it is one of the six codes; a name that matches no
\* entry yields no code, no view is installed for it, and the file is
\* sent for analysis all the same.
C1_FirstMatchWins ==
  Selected =>
    /\ lastOp.viewCode = EarliestMatch(lastOp.arg)
    /\ lastOp.viewCode \in ViewCodes \cup {NoCode}
    /\ lastOp.viewCode # NoCode =>
         /\ lastOp.viewCode \in ViewCodes
         /\ results.view_analysis.view_code = lastOp.viewCode
    /\ lastOp.viewCode = NoCode =>
         /\ MatchedRanks(lastOp.arg) = {}
         /\ results.view_analysis = Undefined
         /\ file = lastOp.arg
         /\ NewRequest(lastOp.arg) \in InFlight

\* A name that matches several entries was selected and got the
\* earliest of them.
C1_Witness ==
  /\ Selected
  /\ Cardinality(MatchedRanks(lastOp.arg)) >= 3
  /\ lastOp.viewCode = "R-MLO"

\* A name that matches no entry was dropped and is being analysed.
C1_WitnessNoCode ==
  /\ lastOp.op = "handleDrop"
  /\ lastOp.viewCode = NoCode
  /\ Len(lastOp.arg) > 0
  /\ NewRequest(lastOp.arg) \in InFlight

LeftCodes == { "L-MLO", "LCC", "MLO" }
RightCodes == { "R-MLO", "RCC", "CC" }

\* C2: when a file selection installs a view taken from the file name,
\* laterality is Left and laterality_code is L exactly when the view
\* code contains the letter L and not the letter R, otherwise Right and
\* R: Left for L-MLO, LCC and MLO, Right for R-MLO, RCC and CC; the two
\* fields agree; patient_L-MLO_01.png gives L-MLO and Left.
C2_LateralityFromCode ==
  (Selected /\ lastOp.viewCode # NoCode) =>
    LET view == results.view_analysis
        hasL == \E i \in 1..Len(Chars(view.view_code)) : Chars(view.view_code)[i] = "L"
        hasR == \E i \in 1..Len(Chars(view.view_code)) : Chars(view.view_code)[i] = "R"
    IN /\ view.view_code = lastOp.viewCode
       /\ (hasL /\ ~hasR) <=> (view.laterality = "Left" /\ view.laterality_code = "L")
       /\ ~(hasL /\ ~hasR) <=> (view.laterality = "Right" /\ view.laterality_code = "R")
       /\ view.view_code \in LeftCodes => view.laterality = "Left"
       /\ view.view_code \in RightCodes => view.laterality = "Right"
       /\ view.laterality = "Left" <=> view.laterality_code = "L"
       /\ view.laterality = "Right" <=> view.laterality_code = "R"
       /\ lastOp.arg = Chars("patient_L-MLO_01.png") =>
            view.view_code = "L-MLO" /\ view.laterality = "Left"

\* The documented example was selected and its view installed.
C2_Witness ==
  /\ Selected
  /\ lastOp.arg = Chars("patient_L-MLO_01.png")
  /\ results.view_analysis.laterality = "Left"

\* The generic code MLO, which contains an L, was installed as Left.
C2_WitnessGeneric ==
  /\ Selected
  /\ lastOp.viewCode = "MLO"
  /\ results.view_analysis.laterality_code = "L"

HasLeftToken(name) == Matches(name, "L-MLO") \/ Matches(name, "LCC")
HasRightToken(name) == Matches(name, "R-MLO") \/ Matches(name, "RCC")

\* C3 as stated: a file name with both a left-side and a right-side token
\* resolves to laterality Right.
C3_BothTokensRight ==
  (Selected /\ HasLeftToken(lastOp.arg) /\ HasRightToken(lastOp.arg)) =>
    results.view_analysis.laterality = "Right"

\* C3 amended: a file name with both a left-side and a right-side token
\* resolves by the order of precedence of the view codes: to Right only
\* when it has an R-MLO token and no L-MLO token, to Left otherwise (so
\* to Left when it has both L-MLO and R-MLO, or both LCC and RCC).
C3_BothTokensByPrecedence ==
  (Selected /\ HasLeftToken(lastOp.arg) /\ HasRightToken(lastOp.arg)) =>
    results.view_analysis.laterality =
      IF ~Matches(lastOp.arg, "L-MLO") /\ Matches(lastOp.arg, "R-MLO")
      THEN "Right" ELSE "Left"

\* A name with both LCC and RCC was selected and resolved to Left.
C3_Witness ==
  /\ Selected
  /\ Matches(lastOp.arg, "LCC") /\ Matches(lastOp.arg, "RCC")
  /\ ~Matches(lastOp.arg, "L-MLO") /\ ~Matches(lastOp.arg, "R-MLO")
  /\ results.view_analysis.laterality = "Left"

\* A name with LCC and R-MLO was selected and resolved to Right.
C3_WitnessRight ==
  /\ Selected
  /\ Matches(lastOp.arg, "LCC") /\ Matches(lastOp.arg, "R-MLO")
  /\ results.view_analysis.laterality = "Right"

-----------------------------------------------------------------------------
(* Time-out, atomicity and the file of the displayed results *)

\* C4 as stated: an analysis ends at the latest when its 120 s budget
\* expires (it is then aborted and reported as timed out): no call is
\* still in flight once its budget has expired.
C4_EndsWithinBudget ==
  \A r \in InFlight : ~r.expired

\* What does hold of the time-out: an expiry while fetch() is pending
\* ends the call with the time-out text, an empty status, isAnalyzing
\* false, results and analysisDone untouched, and starts no new request.
C4_TimeoutReported ==
  [][ (lastOp'.op = "analyzeFailed" /\ lastOp'.error = "AbortError") =>
        /\ errorMessage' = TimeoutMessage
        /\ statusMessage' = ""
        /\ ~isAnalyzing'
        /\ analysisDone' = analysisDone
        /\ results' = results
        /\ BagCardinality(requests') = BagCardinality(requests) - 1 ]_vars

\* A file name was installed as provisional view and nothing else.
OnlyProvisional ==
  /\ results = [ EmptyResults EXCEPT !.view_analysis = results.view_analysis ]
  /\ \/ results.view_analysis = Undefined
     \/ \E code \in ViewCodes : results.view_analysis = ProvisionalView(code)

\* results is the record of one response, whole.
OneResponse ==
  \E f \in SessionFiles, scan \in SessionScans :
    results = ResultData(BackendAnalyze(f, scan))

C5_Whole == OnlyProvisional \/ OneResponse

C5_Step ==
  /\ lastOp'.op = "analyzeSucceeded" =>
       /\ results' = ResultData(lastOp'.data)
       /\ analysisDone'
       /\ statusMessage' = "Analysis complete."
       /\ visualTab' = "overlay"
       /\ detailsTab' = "clinical"
  /\ lastOp'.op = "analyzeFailed" =>
       /\ results' = results
       /\ analysisDone' = analysisDone
       /\ errorMessage' # ""
       /\ statusMessage' = ""

\* C5: an analysis either succeeds and replaces results as a whole in one
\* step (analysisDone true, status "Analysis complete.", tabs overlay and
\* clinical) or fails (server error, network error, abort, unreadable
\* body) and leaves results and analysisDone untouched, with an error
\* message and an empty status; results never mixes the fields of one
\* response with anything else.
C5_AtomicPerImage == []C5_Whole /\ [][C5_Step]_vars

\* An analysis failed while the results of another one were displayed.
C5_Witness ==
  /\ lastOp.op = "analyzeFailed"
  /\ analysisDone
  /\ OneResponse
  /\ errorMessage # ""

\* C6 as stated: the results displayed for a completed analysis are the
\* results of the currently selected file, the one whose report
\* handleDownloadReport requests.
C6_ResultsOfSelectedFile ==
  (analysisDone /\ results.original.t = "dataurl") =>
    results.original.v.of = file

-----------------------------------------------------------------------------
(* What the results screen shows *)

\* A table cell or metric shows a number or a dash.
ShownNumber(v) == [ text |-> "number", v |-> v ]
ShownDash == [ text |-> "dash" ]

\* Prediction Metrics (App.js:691-709): x != null ? `${x.toFixed(2)}%` : "-"
MetricShown(x) ==
  IF IsNullish(x) THEN ShownDash ELSE ShownNumber(ToFixed(x.v, 2))

\* Detection Statistics (App.js:1414, 1419): x?.toFixed(2) || '0.00'
StatsPercentShown(x) ==
  IF IsNullish(x) THEN ShownNumber(0) ELSE ShownNumber(ToFixed(x.v, 2))

\* Detection Statistics (App.js:1404, 1409):
\* findings?.x ? (findings.x * 100).toFixed(2) : '0.00'
StatsActivationShown(findings, field) ==
  IF ~IsNullish(findings) /\ Truthy(findings[field])
  THEN ShownNumber(ToFixed(findings[field].v * 100, 2))
  ELSE ShownNumber(0)

\* RegionsDetectedShown counting only the regions of high confidence.
RegionsDetectedHighOnly(res) ==
  IF IsNullish(res.findings) THEN 0
  ELSE Len(SelectSeq(res.findings.regions, LAMBDA region : region.confidence > Percent(75)))

\* "Regions Detected" (App.js:1394): findings?.num_regions || 0
RegionsDetectedShown(res) ==
  IF IsNullish(res.findings) THEN 0
  ELSE OrElse(res.findings.num_regions, Num(0)).v

\* findings?.regions && findings.regions.length > 0 (App.js:1013, 1427)
HasRegions(res) ==
  ~IsNullish(res.findings) /\ Len(res.findings.regions) > 0

\* The "Detected Regions Detail" table is rendered (App.js:1427-1469).
RegionsTableShown ==
  analysisDone /\ detailsTab = "clinical" /\ HasRegions(results)

\* The rows of that table (App.js:1443).
RegionRows == IF RegionsTableShown THEN results.findings.regions ELSE <<>>

\* NoRegionsNoticeShown rendering the notice only when there are no
\* findings at all.
NoRegionsNoticeWithoutFindings ==
  /\ analysisDone /\ detailsTab = "clinical"
  /\ IsNullish(results.findings)

\* The "No distinct suspicious regions detected" notice is rendered:
\* !findings?.regions || findings.regions.length === 0 (App.js:1472).
NoRegionsNoticeShown ==
  /\ analysisDone /\ detailsTab = "clinical"
  /\ (IsNullish(results.findings) \/ Len(results.findings.regions) = 0)

\* String.prototype.toLowerCase, character by character, of the risk
\* and result labels.
LowerChars(label) ==
  CASE label = "Very Low Risk" ->
         <<"v", "e", "r", "y", " ", "l", "o", "w", " ", "r", "i", "s", "k">>
    [] label = "Low Risk" ->
         <<"l", "o", "w", " ", "r", "i", "s", "k">>
    [] label = "Moderate Risk" ->
         <<"m", "o", "d", "e", "r", "a", "t", "e", " ", "r", "i", "s", "k">>
    [] label = "High Risk" ->
         <<"h", "i", "g", "h", " ", "r", "i", "s", "k">>
    [] label = "Very High Risk" ->
         <<"v", "e", "r", "y", " ", "h", "i", "g", "h", " ", "r", "i", "s", "k">>
    [] label = "Unavailable" ->
         <<"u", "n", "a", "v", "a", "i", "l", "a", "b", "l", "e">>
    [] label = "Malignant" ->
         <<"m", "a", "l", "i", "g", "n", "a", "n", "t">>
    [] label = "Benign" ->
         <<"b", "e", "n", "i", "g", "n">>
    [] label = "Analysis Result" ->
         <<"a", "n", "a", "l", "y", "s", "i", "s", " ", "r", "e", "s", "u", "l", "t">>

\* results.result?.toLowerCase().includes("malignant") (App.js:1010)
IsMalignantResult(res) ==
  /\ ~IsNullish(res.result)
  /\ Includes(LowerChars(res.result.v), LowerChars("Malignant"))

\* The region cards and their header "Detected Regions (num_regions)"
\* are rendered (App.js:1010-1017).
RegionCardsShown ==
  analysisDone /\ IsMalignantResult(results) /\ HasRegions(results)

\* getRiskClass (App.js:516-531)
getRiskClass(res) ==
  LET risk == IF IsNullish(res.risk) THEN <<>> ELSE LowerChars(res.risk.v)
      has(text) == Includes(risk, LowerChars(text))
  IN IF has("Very High Risk") THEN "risk-high"
     ELSE IF has("High Risk") /\ ~Includes(risk, <<"m", "o", "d", "e", "r", "a", "t", "e">>)
          THEN "risk-high"
     ELSE IF Includes(risk, <<"m", "o", "d", "e", "r", "a", "t", "e">>) THEN "risk-moderate"
     ELSE IF has("Very Low Risk") THEN "risk-low"
     ELSE IF has("Low Risk") THEN "risk-low"
     ELSE ""

\* The rows of the Risk Assessment Guide (App.js:1322-1326): label and
\* range in percent.
RiskGuide ==
  << [ label |-> "Very Low Risk", from |-> 0, to |-> 10 ],
     [ label |-> "Low Risk", from |-> 10, to |-> 25 ],
     [ label |-> "Moderate Risk", from |-> 25, to |-> 50 ],
     [ label |-> "High Risk", from |-> 50, to |-> 75 ],
     [ label |-> "Very High Risk", from |-> 75, to |-> 100 ] >>

-----------------------------------------------------------------------------
(* One analysis at a time, for every shape of response: any of the score  *)
(* fields or the findings may be missing from the body, and the           *)
(* activation field may have any components.                              *)

ScoreFields ==
  { "malignant_prob", "benign_prob", "confidence", "threshold", "risk_level",
    "max_activation", "overall_activation" }

\* The body data without the fields in missing.
Without(data, missing) ==
  LET top == [ k \in DOMAIN data |-> IF k \in missing THEN Undefined ELSE data[k] ]
  IN IF "findings" \in missing THEN top
     ELSE [ top EXCEPT !.findings =
              [ k \in DOMAIN data.findings |->
                  IF k \in missing THEN Undefined ELSE data.findings[k] ] ]

ComponentValues ==
  { Component(peak, area) : peak \in { 300, 500, 700, 820 }, area \in { 0, 3 } }

RECURSIVE ComponentLists(_)
ComponentLists(n) ==
  IF n = 0 THEN { <<>> }
  ELSE LET shorter == ComponentLists(n - 1)
       IN shorter \cup { <<c>> \o list : c \in ComponentValues, list \in shorter }

RegionScans == { Scan(Percent(82), list, "MLO") : list \in ComponentLists(MaxComponents) }

ScoreResponses(filename) ==
  { Without(BackendAnalyze(filename, scan), missing) :
      scan \in SessionScans, missing \in SUBSET (ScoreFields \cup {"findings"}) }
  \cup { BackendAnalyze(filename, scan) : scan \in RegionScans }

\* The view_analysis objects a response may carry: any of the six codes
\* with any of the four view-specific fields present.
ViewRecords ==
  { [ BackendView(Chars("scan.png"), Scan(Percent(5), << >>, "CC")) EXCEPT
        !.view_code = code,
        !.laterality = SideOf(code, "Left", "Right"),
        !.laterality_code = SideOf(code, "L", "R"),
        !.axillary_findings = axillary,
        !.pectoral_muscle_visibility = pectoral,
        !.asymmetry = asymmetry,
        !.skin_nipple_changes = skin ] :
      code \in ViewCodes,
      axillary \in { Undefined, Str("Present") },
      pectoral \in { Undefined, Str("Present") },
      asymmetry \in { Undefined, Str("Present") },
      skin \in { Undefined, Str("Present") } }

ViewResponses(filename) ==
  { [ BackendAnalyze(filename, Scan(Percent(5), << >>, "CC")) EXCEPT
        !.view_analysis = view ] : view \in ViewRecords }

Idle == requests = EmptyBag

NextScores ==
  \/ Idle /\ handleFileChange(Chars("scan.png"))
  \/ Idle /\ handleDrop(Chars("patient_L-MLO_01.png"))
  \/ handleBackToUpload
  \/ \E tab \in DetailsTabs : setDetailsTab(tab)
  \/ \E r \in InFlight, ok \in BOOLEAN : FetchResolves(r, ok)
  \/ \E r \in InFlight : \E data \in ScoreResponses(r.file) : AnalyzeSucceeds(r, data)
  \/ \E r \in InFlight : \E data \in ViewResponses(r.file) : AnalyzeSucceeds(r, data)
  \/ \E r \in InFlight : AnalyzeNullBody(r)
  \/ \E r \in InFlight, detail \in ErrorDetails : AnalyzeServerError(r, detail)

SpecScores == Init /\ [][NextScores]_vars

Succeeded == lastOp.op = "analyzeSucceeded"

\* The result record holds no number for a field the response lacks.
NoStandIn(field, stored) ==
  lastOp.data[field] = Undefined => ~IsNum(stored)

\* No number is displayed for a field the response lacks.
NoNumberShown(field, shown) ==
  lastOp.data[field] = Undefined => shown.text # "number"

FindingsLack(field) ==
  IsNullish(lastOp.data.findings) \/ lastOp.data.findings[field] = Undefined

\* C7 as stated: when a response lacks a score field, the result record
\* holds no numeric stand-in for it and no number is displayed in its
\* place.
C7_NoFabricatedScore ==
  Succeeded =>
    /\ NoStandIn("malignant_prob", results.malignant)
    /\ NoStandIn("benign_prob", results.benign)
    /\ NoStandIn("confidence", results.confidence)
    /\ NoStandIn("confidence", results.rawScore)
    /\ NoStandIn("threshold", results.threshold)
    /\ NoStandIn("risk_level", results.risk)
    /\ NoNumberShown("malignant_prob", MetricShown(results.malignant))
    /\ NoNumberShown("benign_prob", MetricShown(results.benign))
    /\ NoNumberShown("confidence", MetricShown(results.confidence))
    /\ NoNumberShown("malignant_prob", StatsPercentShown(results.malignant))
    /\ NoNumberShown("benign_prob", StatsPercentShown(results.benign))
    /\ FindingsLack("max_activation") =>
         StatsActivationShown(results.findings, "max_activation").text # "number"
    /\ FindingsLack("overall_activation") =>
         StatsActivationShown(results.findings, "overall_activation").text # "number"

\* The part of C7 that holds: the Prediction Metrics show a dash, and the
\* record holds null, for a missing probability or confidence.
C7_MetricsShowDash ==
  Succeeded =>
    /\ NoStandIn("malignant_prob", results.malignant)
    /\ NoStandIn("benign_prob", results.benign)
    /\ NoStandIn("confidence", results.confidence)
    /\ NoNumberShown("malignant_prob", MetricShown(results.malignant))
    /\ NoNumberShown("benign_prob", MetricShown(results.benign))
    /\ NoNumberShown("confidence", MetricShown(results.confidence))

NonIncreasing(regions) ==
  \A i \in 1..(Len(regions) - 1) : regions[i].confidence >= regions[i + 1].confidence

NoRegionsIn(res) == IsNullish(res.findings) \/ res.findings.regions = <<>>

C10_Step ==
  (lastOp'.op = "analyzeSucceeded" /\ NoRegionsIn(ResultData(lastOp'.data))) =>
    /\ analysisDone'
    /\ errorMessage' = errorMessage
    /\ errorMessage' = ""
    /\ RegionsDetectedShown(results') = 0
    /\ NoRegionsNoticeShown'
    /\ ~RegionsTableShown'

C10_Shown ==
  (analysisDone /\ detailsTab = "clinical") =>
    /\ NoRegionsNoticeShown <=> NoRegionsIn(results)
    /\ ~(NoRegionsNoticeShown /\ RegionsTableShown)
    /\ NoRegionsNoticeShown => RegionsDetectedShown(results) = 0

\* C10: a response with an empty or absent region list completes the
\* analysis without an error message (analysisDone true), "Regions
\* Detected" shows 0, and the "No distinct suspicious regions detected"
\* notice is shown exactly when the list is empty or absent, never
\* together with the region table.
C10_NoRegionsIsNormal == []C10_Shown /\ [][C10_Step]_vars

\* A response without findings completed the analysis and the notice is
\* shown.
C10_Witness ==
  /\ Succeeded
  /\ lastOp.data.findings = Undefined
  /\ analysisDone /\ errorMessage = ""
  /\ NoRegionsNoticeShown

\* A response whose only component was too small completed the analysis.
C10_WitnessEmpty ==
  /\ Succeeded
  /\ ~IsNullish(results.findings) /\ results.findings.regions = <<>>
  /\ NoRegionsNoticeShown

-----------------------------------------------------------------------------
(* One analysis at a time of an image of any malignant probability, in    *)
(* steps of a thousandth of a percent.                                    *)

StepsPerPercent == 10 ^ 3

Probabilities == { n * (Scale \div StepsPerPercent) : n \in 0..(100 * StepsPerPercent) }

NextRisk ==
  \/ Idle /\ handleFileChange(Chars("scan.png"))
  \/ handleBackToUpload
  \/ \E tab \in DetailsTabs : setDetailsTab(tab)
  \/ \E r \in InFlight : FetchResolves(r, TRUE)
  \/ \E r \in InFlight, prob \in Probabilities :
       AnalyzeSucceeds(r, BackendAnalyze(r.file, Scan(prob, << >>, "CC")))

SpecRisk == Init /\ [][NextRisk]_vars

\* The rows of the guide that hold a probability, each row closed at its
\* lower end and the last one also at 100.
BandsOf(prob) ==
  { i \in 1..Len(RiskGuide) :
      /\ Percent(RiskGuide[i].from) <= prob
      /\ \/ prob < Percent(RiskGuide[i].to)
         \/ i = Len(RiskGuide) /\ prob = Percent(RiskGuide[i].to) }

RiskClassOf(label) ==
  CASE label \in { "Very Low Risk", "Low Risk" } -> "risk-low"
    [] label = "Moderate Risk" -> "risk-moderate"
    [] label \in { "High Risk", "Very High Risk" } -> "risk-high"

\* C8: the risk level of every analysed image is the label of exactly one
\* row of the guide, the row whose lower-closed range holds the malignant
\* probability ([0,10) Very Low, [10,25) Low, [25,50) Moderate, [50,75)
\* High, [75,100] Very High); 24.999 is Low and 25.000 is Moderate; and
\* the risk badge takes the class of that level.
C8_RiskBands ==
  (analysisDone /\ IsNum(results.malignant)) =>
    /\ Cardinality(BandsOf(results.malignant.v)) = 1
    /\ \A i \in BandsOf(results.malignant.v) :
         /\ results.risk = Str(RiskGuide[i].label)
         /\ getRiskClass(results) = RiskClassOf(RiskGuide[i].label)
    /\ results.malignant.v = Percent(25) - (Scale \div StepsPerPercent) =>
         results.risk = Str("Low Risk")
    /\ results.malignant.v = Percent(25) => results.risk = Str("Moderate Risk")

\* An image of probability 25.000 was analysed and is Moderate.
C8_Witness ==
  /\ Succeeded
  /\ results.malignant = Num(Percent(25))
  /\ results.risk = Str("Moderate Risk")

\* An image of probability 24.999 was analysed and is Low.
C8_WitnessBelow ==
  /\ Succeeded
  /\ results.malignant = Num(Percent(25) - (Scale \div StepsPerPercent))
  /\ results.risk = Str("Low Risk")

-----------------------------------------------------------------------------
(* The view panel of the results screen *)

MLOFields == { "axillary_findings", "pectoral_muscle_visibility" }
CCFields == { "asymmetry", "skin_nipple_changes" }

\* ViewFieldShown without the test of the view code.
ViewFieldShownAnyCode(res, family, field) ==
  /\ ~IsNullish(res.view_analysis)
  /\ field \in DOMAIN res.view_analysis
  /\ Truthy(res.view_analysis[field])

\* view_analysis.view_code?.includes(family) && view_analysis[field]
\* inside the panel rendered when results.view_analysis is truthy
\* (App.js:1112, 1206, 1216, 1226, 1236).
ViewFieldShown(res, family, field) ==
  /\ ~IsNullish(res.view_analysis)
  /\ Includes(Chars(res.view_analysis.view_code), Chars(family))
  /\ field \in DOMAIN res.view_analysis
  /\ Truthy(res.view_analysis[field])

MLOFieldsShown(res) == { f \in MLOFields : ViewFieldShown(res, "MLO", f) }
CCFieldsShown(res) == { f \in CCFields : ViewFieldShown(res, "CC", f) }

MLOCodes == { "L-MLO", "R-MLO", "MLO" }
CCCodes == { "LCC", "RCC", "CC" }

\* C11: for every view code of the six, exactly one family test of the
\* view panel succeeds; the MLO-only fields are shown only for an MLO
\* code, the CC-only fields only for a CC code, and never fields of both
\* families for the same record.
C11_FamiliesExclusive ==
  (analysisDone /\ ~IsNullish(results.view_analysis)
     /\ results.view_analysis.view_code \in ViewCodes) =>
    LET code == results.view_analysis.view_code
        mlo == Includes(Chars(code), Chars("MLO"))
        cc == Includes(Chars(code), Chars("CC"))
    IN /\ mlo # cc
       /\ mlo <=> code \in MLOCodes
       /\ cc <=> code \in CCCodes
       /\ MLOFieldsShown(results) # {} => code \in MLOCodes
       /\ CCFieldsShown(results) # {} => code \in CCCodes
       /\ MLOFieldsShown(results) = {} \/ CCFieldsShown(results) = {}

\* A response for an MLO code that carries the fields of both families:
\* only the MLO fields are shown.
C11_Witness ==
  /\ Succeeded
  /\ results.view_analysis.view_code = "L-MLO"
  /\ \A f \in MLOFields \cup CCFields : Truthy(results.view_analysis[f])
  /\ MLOFieldsShown(results) = MLOFields
  /\ CCFieldsShown(results) = {}

\* The same for a CC code.
C11_WitnessCC ==
  /\ Succeeded
  /\ results.view_analysis.view_code = "RCC"
  /\ \A f \in MLOFields \cup CCFields : Truthy(results.view_analysis[f])
  /\ MLOFieldsShown(results) = {}
  /\ CCFieldsShown(results) = CCFields

-----------------------------------------------------------------------------
(* The colours of a region's confidence *)

Red == "#DC2626"
Amber == "#F59E0B"
Green == "#059669"

\* Region card (App.js:1035): confidence > 70 ? red : green
CardConfidenceColor(confidence) ==
  IF confidence > Percent(70) THEN Red ELSE Green

\* Regions table (App.js:1448):
\* confidence > 70 ? red : confidence > 50 ? amber : green
TableConfidenceColor(confidence) ==
  IF confidence > Percent(70) THEN Red
  ELSE IF confidence > Percent(50) THEN Amber
  ELSE Green

\* The regions of the result on screen, when both the cards and the table
\* are rendered.
BandedRegions ==
  IF RegionCardsShown /\ RegionsTableShown THEN results.findings.regions ELSE << >>

\* C12 as stated: the region card and the regions table band a confidence
\* with the same three-way threshold (high above 70, medium above 50, low
\* otherwise).
C12_SameBands ==
  \A i \in 1..Len(BandedRegions) :
    CardConfidenceColor(BandedRegions[i].confidence)
      = TableConfidenceColor(BandedRegions[i].confidence)

\* The part of C12 that holds: the table puts every confidence in exactly
\* one of three bands, a confidence equal to a cut-off in the lower one,
\* and 82 in the high one.
C12_TableBands ==
  \A i \in 1..Len(RegionRows) :
    LET confidence == RegionRows[i].confidence
        color == TableConfidenceColor(confidence)
    IN /\ color = Red <=> confidence > Percent(70)
       /\ color = Amber <=> (Percent(50) < confidence /\ confidence <= Percent(70))
       /\ color = Green <=> confidence <= Percent(50)
       /\ confidence = Percent(82) => color = Red

-----------------------------------------------------------------------------
(* Downloading the displayed image *)

\* getActiveVisualImage (App.js:502-514)
getActiveVisualImage(res, tab) ==
  CASE tab = "heatmap" -> res.heatmap
    [] tab = "bbox" -> res.bbox
    [] tab = "original" -> OrElse(res.cancer_type, res.original)
    [] OTHER -> res.overlay

\* The name handleDownloadImage gives the file (App.js:476-491).
DownloadName(tab) ==
  CASE tab = "heatmap" -> "mammogram_heatmap.png"
    [] tab = "bbox" -> "region_detection.png"
    [] tab = "original" -> "type_of_cancer_detection.png"
    [] OTHER -> "mammogram_overlay.png"

\* The image and the Download button are rendered (App.js:762, 822-826).
DownloadButtonShown ==
  ~UploadScreen /\ Truthy(getActiveVisualImage(results, visualTab))

\* handleDownloadImage (App.js:465-500); lastOp records the link clicked.
handleDownloadImage ==
  /\ clearTimers < MaxTimers
  /\ IF ~Truthy(getActiveVisualImage(results, visualTab))
     THEN /\ errorMessage' = "No image available to download"
          /\ lastOp' = [ op |-> "handleDownloadImage", tab |-> visualTab,
                         href |-> Null, download |-> "" ]
          /\ UNCHANGED <<statusMessage, clearTimers>>
     ELSE /\ statusMessage' = "Downloaded: " \o DownloadName(visualTab)
          /\ clearTimers' = clearTimers + 1
          /\ lastOp' = [ op |-> "handleDownloadImage", tab |-> visualTab,
                         href |-> getActiveVisualImage(results, visualTab),
                         download |-> DownloadName(visualTab) ]
          /\ UNCHANGED errorMessage
  /\ UNCHANGED <<results, file, dragActive, scriptVars, authVars, analysisDone, tabVars, isAnalyzing,
                 isGeneratingReport, historyVars, requests, reports>>

ImageKinds == { "original", "overlay", "heatmap_only", "bbox", "cancer_type" }

\* Responses that lack some of the images.
ImageResponses(filename) ==
  LET whole == BackendAnalyze(filename, Scan(Percent(82), << Component(820, 3) >>, "CC"))
  IN { [ whole EXCEPT !.images =
           [ k \in ImageKinds |-> IF k \in missing THEN Undefined ELSE whole.images[k] ] ] :
         missing \in { {}, {"cancer_type"}, {"bbox"}, {"cancer_type", "original"} } }

NextDownload ==
  \/ Idle /\ handleFileChange(Chars("scan.png"))
  \/ \E r \in InFlight : FetchResolves(r, TRUE)
  \/ \E r \in InFlight : \E data \in ImageResponses(r.file) : AnalyzeSucceeds(r, data)
  \/ \E tab \in VisualTabs : setVisualTab(tab)
  \/ DownloadButtonShown /\ handleDownloadImage
  \/ handleDownloadReport
  \/ \E q \in reports : ReportFetchResolves(q, TRUE)
  \/ \E q \in reports : ReportDownloaded(q)
  \/ StatusTimerFires
  \/ handleBackToUpload

SpecDownload == Init /\ [][NextDownload]_vars

ImageDownloaded == lastOp.op = "handleDownloadImage" /\ lastOp.download # ""

\* The file names of README_FIX.md, "Smart Naming".
DocumentedName(tab) ==
  CASE tab = "overlay" -> "mammogram_overlay.png"
    [] tab = "heatmap" -> "mammogram_heatmap.png"
    [] tab = "bbox" -> "mammogram_regions.png"
    [] tab = "original" -> "mammogram_cancer_type.png"

\* C13 as stated: a download names the file after the active tab
\* (mammogram_overlay.png, mammogram_heatmap.png, mammogram_regions.png,
\* mammogram_cancer_type.png) and the image downloaded is the one
\* displayed for that tab.
C13_NamedAfterTab ==
  ImageDownloaded =>
    /\ lastOp.download = DocumentedName(lastOp.tab)
    /\ lastOp.href = getActiveVisualImage(results, lastOp.tab)

\* The part of C13 that holds: the image downloaded is the one displayed,
\* the overlay and heatmap tabs give the documented names, and nothing is
\* downloaded when the tab has no image.
C13_DownloadsDisplayed ==
  lastOp.op = "handleDownloadImage" =>
    /\ lastOp.href = getActiveVisualImage(results, lastOp.tab)
    /\ Truthy(lastOp.href) <=> lastOp.download # ""
    /\ lastOp.tab \in { "overlay", "heatmap" } /\ ImageDownloaded =>
         lastOp.download = DocumentedName(lastOp.tab)

DownloadedMessages == { "Downloaded: " \o DownloadName(tab) : tab \in VisualTabs }

\* C14 as stated: the message of an image download stays until its own
\* timer fires, 3 seconds later; no timer started by an earlier download
\* clears it.  Every timer has the same delay, so the timers fire in the
\* order they were started, and the message on screen was set together
\* with the last of them.
C14_Step ==
  (lastOp'.op = "statusTimer" /\ statusMessage \in DownloadedMessages) =>
    clearTimers = 1

C14_MessageLastsThreeSeconds == [][C14_Step]_vars

-----------------------------------------------------------------------------
(* setup_and_run.sh *)

appVars == <<results, file, dragActive, analysisDone, visualTab, detailsTab,
             isAnalyzing, isGeneratingReport, statusMessage, errorMessage,
             uploadHistory, storedHistory, now, readers, historyLoads,
             requests, reports, clearTimers, lastOp>>

SleepSeconds == 60

\* The script is started where the model file is or is not in place and
\* containers and images of an earlier build may exist.
SetupStarts(model, containers, images) ==
  /\ setup.pc = "not run"
  /\ setup' = [ pc |-> "check model", log |-> << >>, model |-> model,
                containers |-> containers, images |-> images,
                waited |-> 0, status |-> 0 ]
  /\ UNCHANGED <<appVars, authVars, startup, render>>

\* [1/5] if [ -f backend/models/breast_cancer_model.keras ] ... else exit 1
SetupCheckModel ==
  /\ setup.pc = "check model"
  /\ setup' = IF setup.model
              THEN [ setup EXCEPT !.pc = "down", !.log = Append(@, "verify model") ]
              ELSE [ setup EXCEPT !.pc = "exited", !.status = 1,
                                  !.log = Append(@, "verify model") ]
  /\ UNCHANGED <<appVars, authVars, startup, render>>

\* [2/5] docker-compose down: stops and removes the containers; the
\* images stay.
SetupDown ==
  /\ setup.pc = "down"
  /\ setup' = [ setup EXCEPT !.pc = "build", !.containers = {},
                             !.log = Append(@, "stop containers") ]
  /\ UNCHANGED <<appVars, authVars, startup, render>>

\* [3/5] docker-compose build --no-cache; exit 1 when it fails.  The new
\* images take the tags; the images of the earlier build stay on disk.
SetupBuild(ok) ==
  /\ setup.pc = "build"
  /\ setup' = IF ok
              THEN [ setup EXCEPT !.pc = "up", !.images = @ \cup { "new" },
                                  !.log = Append(@, "build images") ]
              ELSE [ setup EXCEPT !.pc = "exited", !.status = 1,
                                  !.log = Append(@, "build images") ]
  /\ UNCHANGED <<appVars, authVars, startup, render>>

\* [4/5] docker-compose up -d; its exit status is not tested.
SetupUp(ok) ==
  /\ setup.pc = "up"
  /\ setup' = [ setup EXCEPT !.pc = "sleep",
                             !.containers = IF ok THEN { "backend", "frontend" } ELSE @,
                             !.log = Append(@, "start services") ]
  /\ UNCHANGED <<appVars, authVars, startup, render>>

\* [5/5] sleep 60, second by second.
SetupSleeps ==
  /\ setup.pc = "sleep" /\ setup.waited < SleepSeconds
  /\ setup' = [ setup EXCEPT !.waited = @ + 1 ]
  /\ UNCHANGED <<appVars, authVars, startup, render>>

SetupWakes ==
  /\ setup.pc = "sleep" /\ setup.waited = SleepSeconds
  /\ setup' = [ setup EXCEPT !.pc = "urls", !.log = Append(@, "wait") ]
  /\ UNCHANGED <<appVars, authVars, startup, render>>

\* echo "Frontend: ..." "Backend: ..." "Health: ..."
SetupShowsUrls ==
  /\ setup.pc = "urls"
  /\ setup' = [ setup EXCEPT !.pc = "done", !.log = Append(@, "show urls") ]
  /\ UNCHANGED <<appVars, authVars, startup, render>>

SetupNext ==
  \/ \E model \in BOOLEAN, containers \in SUBSET { "old" }, images \in SUBSET { "old" } :
       SetupStarts(model, containers, images)
  \/ SetupCheckModel
  \/ SetupDown
  \/ \E ok \in BOOLEAN : SetupBuild(ok)
  \/ \E ok \in BOOLEAN : SetupUp(ok)
  \/ SetupSleeps
  \/ SetupWakes
  \/ SetupShowsUrls

-----------------------------------------------------------------------------
(* backend/startup.sh *)

DefaultModelPath == "/app/models/breast_cancer_model.keras"
OtherModelPath == "/data/model.keras"

\* dirname "$MODEL_PATH"
Dirname(path) ==
  CASE path = DefaultModelPath -> "/app/models"
    [] path = OtherModelPath -> "/data"

\* The environment variable MODEL_PATH: unset, or set to a value.
Unset == [ t |-> "unset" ]
SetTo(value) == [ t |-> "set", v |-> value ]

\* "${MODEL_PATH:-/app/models/breast_cancer_model.keras}": the default
\* when the variable is unset or empty.
ModelPathOf(env) ==
  IF env.t = "unset" THEN DefaultModelPath
  ELSE IF env.v = "" THEN DefaultModelPath
  ELSE env.v

\* The file systems the script may start in: a model file lies in a
\* directory that exists.
FileSystems ==
  { fs \in [ dirs : SUBSET { "/app/models", "/data" },
             files : SUBSET { DefaultModelPath, OtherModelPath } ] :
      \A f \in fs.files : Dirname(f) \in fs.dirs }

StartupStarts(env, fs) ==
  /\ startup.pc = "not run"
  /\ startup' = [ pc |-> "mkdir", log |-> << >>, out |-> << >>,
                  MODEL_PATH |-> ModelPathOf(env),
                  MODELS_DIR |-> Dirname(ModelPathOf(env)),
                  dirs |-> fs.dirs, files |-> fs.files ]
  /\ UNCHANGED <<appVars, authVars, setup, render>>

\* mkdir -p "$MODELS_DIR"; the script goes on when it fails.
StartupMkdir(ok) ==
  /\ startup.pc = "mkdir"
  /\ ok \/ startup.MODELS_DIR \notin startup.dirs
  /\ startup' = [ startup EXCEPT !.pc = "check",
                    !.dirs = IF ok THEN @ \cup { startup.MODELS_DIR } ELSE @,
                    !.log = Append(@, IF ok THEN "mkdir" ELSE "mkdir failed") ]
  /\ UNCHANGED <<appVars, authVars, setup, render>>

\* StartupCheck giving up when the model is missing.
StartupCheckExiting ==
  /\ startup.pc = "check"
  /\ startup' =
       IF startup.MODEL_PATH \in startup.files
       THEN [ startup EXCEPT !.pc = "start", !.log = Append(@, "check"),
                !.out = Append(@, [ text |-> "Model found at", path |-> startup.MODEL_PATH ]) ]
       ELSE [ startup EXCEPT !.pc = "exited", !.log = Append(@, "check"),
                !.out = Append(@, [ text |-> "Model not found at", path |-> startup.MODEL_PATH ]) ]
  /\ UNCHANGED <<appVars, authVars, setup, render>>

\* if [ -f "$MODEL_PATH" ]; then echo found; else echo not found, expected
\* location; fi
StartupCheck ==
  /\ startup.pc = "check"
  /\ startup' =
       IF startup.MODEL_PATH \in startup.files
       THEN [ startup EXCEPT !.pc = "start", !.log = Append(@, "check"),
                !.out = Append(@, [ text |-> "Model found at", path |-> startup.MODEL_PATH ]) ]
       ELSE [ startup EXCEPT !.pc = "start", !.log = Append(@, "check"),
                !.out = Append(Append(@,
                           [ text |-> "Model not found at", path |-> startup.MODEL_PATH ]),
                           [ text |-> "Expected location:", path |-> startup.MODEL_PATH ]) ]
  /\ UNCHANGED <<appVars, authVars, setup, render>>

\* python -m uvicorn main:app --host 0.0.0.0 --port 8001
StartupStartsApp ==
  /\ startup.pc = "start"
  /\ startup' = [ startup EXCEPT !.pc = "app", !.log = Append(@, "start app") ]
  /\ UNCHANGED <<appVars, authVars, setup, render>>

StartupNext ==
  \/ \E env \in { Unset, SetTo(""), SetTo(OtherModelPath) }, fs \in FileSystems : StartupStarts(env, fs)
  \/ \E ok \in BOOLEAN : StartupMkdir(ok)
  \/ StartupCheck
  \/ StartupStartsApp

NextScripts == SetupNext \/ StartupNext

\* Each script, once started, runs on.
SpecScripts ==
  Init /\ [][NextScripts]_vars /\ WF_vars(SetupNext) /\ WF_vars(StartupNext)

IsPrefix(short, long) ==
  Len(short) <= Len(long) /\ \A i \in 1..Len(short) : short[i] = long[i]

\* "What the Script Does", steps 1 to 7.
DocumentedSteps ==
  << "verify model", "stop containers", "remove images", "build images",
     "start services", "wait", "show urls" >>

\* C15 as stated: a run of the setup script that reaches its end has
\* verified the model file, stopped the old containers, removed the old
\* images, rebuilt the images, started the services, waited 60 seconds and
\* shown the URLs, in this order.
C15_DocumentedSteps ==
  setup.pc = "done" =>
    /\ setup.log = DocumentedSteps
    /\ "old" \notin setup.images

ScriptSteps ==
  << "verify model", "stop containers", "build images", "start services",
     "wait", "show urls" >>

\* The part of C15 that holds: the other six steps run in the documented
\* order, none before the one before it, and the URLs are shown after a
\* wait of 60 seconds.
C15_ScriptOrder ==
  setup.pc # "not run" =>
    /\ IsPrefix(setup.log, ScriptSteps)
    /\ setup.pc = "done" => (setup.log = ScriptSteps /\ setup.waited = SleepSeconds)

StartupSteps == << "mkdir", "check", "start app" >>

Reported(text) ==
  \E i \in 1..Len(startup.out) :
    startup.out[i] = [ text |-> text, path |-> startup.MODEL_PATH ]

C16_Order ==
  startup.pc # "not run" =>
    /\ \/ IsPrefix(startup.log, StartupSteps)
       \/ IsPrefix(startup.log, << "mkdir failed", "check", "start app" >>)
    /\ startup.pc \in { "check", "start", "app" } /\ startup.log[1] = "mkdir" =>
         startup.MODELS_DIR \in startup.dirs
    /\ startup.pc \in { "start", "app" } =>
         /\ Len(startup.log) >= 2 /\ startup.log[2] = "check"
         /\ startup.MODEL_PATH \notin startup.files => Reported("Expected location:")
         /\ startup.MODEL_PATH \in startup.files => Reported("Model found at")
    /\ startup.pc = "app" => startup.log[3] = "start app"

\* C16: startup.sh makes the models directory, then tests whether the
\* model file exists at MODEL_PATH (default
\* /app/models/breast_cancer_model.keras), and only then starts the
\* application; when the model is missing it reports the expected path;
\* and every run reaches the start of the application, model or no model.
C16_StartupReachesApp ==
  /\ []C16_Order
  /\ (startup.pc # "not run") ~> (startup.pc = "app")

\* A run without MODEL_PATH and without the model file started the
\* application after reporting the default path.
C16_Witness ==
  /\ startup.pc = "app"
  /\ startup.MODEL_PATH = DefaultModelPath
  /\ startup.MODEL_PATH \notin startup.files
  /\ Reported("Expected location:")

-----------------------------------------------------------------------------
(* The analysing flag *)

\* The Browse button and the file input are disabled (App.js:591, 601).
BrowseDisabled == isAnalyzing

\* C17 as stated: isAnalyzing is true exactly while at least one analysis
\* request is in flight, so the Browse control is disabled for the whole
\* duration of every analysis.
C17_AnalyzingWhileInFlight ==
  /\ isAnalyzing <=> requests # EmptyBag
  /\ requests # EmptyBag => BrowseDisabled

\* The part of C17 that holds: the flag is never set without a request in
\* flight, and it is set while the only request is in flight.
C17_AnalyzingOnlyInFlight ==
  /\ isAnalyzing => requests # EmptyBag
  /\ BagCardinality(requests) = 1 /\ lastOp.op \in SelectionOps => isAnalyzing

-----------------------------------------------------------------------------
(* Back to the upload screen *)

\* The state handleBackToUpload leaves (App.js:299-305).
CleanUpload ==
  /\ ~analysisDone
  /\ results = EmptyResults
  /\ file = NoFile
  /\ visualTab = "overlay" /\ detailsTab = "clinical"
  /\ statusMessage = "" /\ errorMessage = ""

\* The user submits a file: file input, drop, or a click in the history.
SubmitOps == SelectionOps \cup { "uploadFromHistory", "historyLoaded", "historyLoadFailed" }

C18_Step ==
  /\ lastOp'.op = "handleBackToUpload" =>
       (CleanUpload' /\ uploadHistory' = uploadHistory)
  /\ (CleanUpload /\ lastOp'.op \notin SubmitOps) => CleanUpload'

\* C18 as stated: handleBackToUpload leaves the clean upload state and
\* the upload history as it was, and the clean state lasts until the user
\* selects, drops or re-uploads a file: no response of an earlier analysis
\* changes it.
C18_StaysClean == [][C18_Step]_vars

\* The part of C18 that holds: what handleBackToUpload itself does.
C18_BackStep ==
  lastOp'.op = "handleBackToUpload" =>
    (CleanUpload' /\ uploadHistory' = uploadHistory /\ requests' = requests)

C18_BackToUploadCleans == [][C18_BackStep]_vars

-----------------------------------------------------------------------------
(* The upload history: files are chosen, dropped and re-uploaded one      *)
(* after the other, and entries are removed.                              *)

HistoryFiles ==
  { Chars(name) : name \in { "LCC", "R-MLO", "MLO", "x", "l-mlo", "scan.png" } }

DroppedFiles == { Chars("LCC"), Chars("x") }

HistoryScan == Scan(Percent(5), << >>, "CC")

Quiet == Idle /\ readers = {} /\ historyLoads = {}

NextHistory ==
  \/ \E f \in HistoryFiles : Quiet /\ handleFileChange(f)
  \/ \E f \in DroppedFiles : Quiet /\ handleDrop(f)
  \/ \E f \in readers : ReaderLoads(f)
  \/ \E r \in InFlight : FetchResolves(r, TRUE)
  \/ \E r \in InFlight : AnalyzeSucceeds(r, BackendAnalyze(r.file, HistoryScan))
  \/ handleBackToUpload
  \/ \E id \in 0..MaxNow : removeFromHistory(id)
  \/ Quiet /\ uploadFromHistory(1)
  \/ \E f \in historyLoads : HistoryLoaded(f)
  \/ \E f \in historyLoads : HistoryLoadFails(f)

SpecHistory == Init /\ [][NextHistory]_vars

NamesIn(history) == { history[i].name : i \in 1..Len(history) }

C19_Kept ==
  /\ Len(uploadHistory) <= 5
  /\ \A i, j \in 1..Len(uploadHistory) :
       uploadHistory[i].name = uploadHistory[j].name => i = j
  /\ \A i \in 1..(Len(uploadHistory) - 1) : uploadHistory[i].id >= uploadHistory[i + 1].id
  /\ storedHistory = uploadHistory

C19_Step ==
  /\ lastOp'.op = "saveToHistory" =>
       LET others == SelectSeq(uploadHistory, LAMBDA h : h.name # lastOp'.arg)
       IN /\ uploadHistory'[1].name = lastOp'.arg
          /\ IsPrefix(Tail(uploadHistory'), others)
          /\ Len(uploadHistory') = IF Len(others) < 5 THEN Len(others) + 1 ELSE 5
  /\ lastOp'.op = "removeFromHistory" =>
       /\ \A i \in 1..Len(uploadHistory') : uploadHistory'[i].id # lastOp'.arg
       /\ uploadHistory' = SelectSeq(uploadHistory, LAMBDA h : h.id # lastOp'.arg)
       /\ Len(uploadHistory') < Len(uploadHistory)

C19_WitnessRemoved ==
  /\ lastOp.op = "removeFromHistory"
  /\ Len(uploadHistory) >= 2

\* The file just submitted is being read for the history or is in it.
Recorded(fileName) ==
  fileName \in readers \/ fileName \in NamesIn(uploadHistory)

\* C20 as stated: a file dropped on the drop zone is handled as a file
\* chosen through the file input: it becomes the selected file with its
\* provisional view, one analysis starts, and the file is recorded in the
\* upload history.
C20_DropAsFileInput ==
  lastOp.op \in SelectionOps =>
    /\ file = lastOp.arg
    /\ BagCardinality(requests) = 1
    /\ Recorded(lastOp.arg)

\* The part of C20 that holds: both set the selected file, install the
\* same provisional view and start exactly one analysis.
C20_SameSelection ==
  lastOp.op \in SelectionOps =>
    /\ file = lastOp.arg
    /\ BagCardinality(requests) = 1
    /\ results.view_analysis =
         IF lastOp.viewCode = NoCode THEN Undefined ELSE ProvisionalView(lastOp.viewCode)
    /\ lastOp.viewCode = extractViewCodeFromFilename(lastOp.arg)

-----------------------------------------------------------------------------
(* AuthProvider with the API and sessionStorage (App.js:1595-1699),      *)
(* the routes of App (App.js:10-33) and ProtectedRoute                    *)

MaxCalls == 2         \* login and signup calls in flight at the same time

\* What sessionStorage may hold when the provider mounts: each item
\* absent, the items a login of this provider left, or a 'user' item that
\* is not JSON.
StoredTokens == { Null, AccessTokenOf("ann") }
StoredUsers == { Null, Str("not json"), Str(JSON_stringify(UserOf("ann"))) }
StoredSessions == [ token : StoredTokens, user : StoredUsers ]

nonAuthVars == <<appVars, scriptVars, page>>

\* The first render of <AuthProvider> in a tab whose sessionStorage
\* holds stored.
AuthProvider(stored) ==
  /\ auth.mounted = "no"
  /\ auth' = [ auth EXCEPT !.mounted = "rendered", !.sessionStorage = stored ]
  /\ UNCHANGED <<location, nonAuthVars>>

\* The effect run after the first render (App.js:1600-1609).  JSON.parse
\* is not inside a try: when it throws, the effect ends before
\* setLoading(false) and React, having no error boundary, removes the
\* tree.
RestoreSession ==
  /\ auth.mounted = "rendered"
  /\ LET storedToken == auth.sessionStorage.token
         storedUser == auth.sessionStorage.user
     IN  IF Truthy(storedToken) /\ Truthy(storedUser)
           THEN LET parsed == JSON_parse(storedUser.v)
                IN  IF parsed.threw
                      THEN auth' = [ auth EXCEPT !.mounted = "unmounted" ]
                      ELSE auth' = [ auth EXCEPT !.token = storedToken,
                                                 !.user = parsed.value,
                                                 !.loading = FALSE,
                                                 !.mounted = "ready" ]
           ELSE auth' = [ auth EXCEPT !.loading = FALSE, !.mounted = "ready" ]
  /\ UNCHANGED <<location, nonAuthVars>>

Calls == BagToSet(auth.calls)

\* A call of login or signup suspended at an await: op is the function
\* the caller called, awaiting the request it waits for ("signup",
\* "login" or "me"), phase "fetch" until fetch() settles and "body" while
\* response.json() is pending; ok is response.ok.
NewCall(op, email) ==
  [ op |-> op, email |-> email, awaiting |-> op, phase |-> "fetch", ok |-> TRUE ]

\* login(email, password) up to its first await (App.js:1611-1618).
login(email) ==
  /\ auth.mounted = "ready"
  /\ BagCardinality(auth.calls) < MaxCalls
  /\ auth' = [ auth EXCEPT !.calls = @ (+) SetToBag({ NewCall("login", email) }) ]
  /\ UNCHANGED <<location, nonAuthVars>>

\* signup(email, password, name) up to its first await (App.js:1654-1661).
signup(email) ==
  /\ auth.mounted = "ready"
  /\ BagCardinality(auth.calls) < MaxCalls
  /\ auth' = [ auth EXCEPT !.calls = @ (+) SetToBag({ NewCall("signup", email) }) ]
  /\ UNCHANGED <<location, nonAuthVars>>

Failure(error) == [ success |-> FALSE, error |-> error ]
Success == [ success |-> TRUE ]

\* The call returns value to its caller.
Returned(c, value) ==
  [ auth EXCEPT !.calls = @ (-) SetToBag({c}),
                !.returned = value ]

Awaits(c, next, phase, ok) ==
  [ auth EXCEPT !.calls = (@ (-) SetToBag({c})) (+)
       SetToBag({ [ c EXCEPT !.awaiting = next, !.phase = phase, !.ok = ok ] }) ]

\* fetch() resolves with response.ok = ok.  A signup that succeeded goes
\* on to login (App.js:1669); a failed /auth/me returns at once
\* (App.js:1634-1636); otherwise the body is read.
AuthFetchResolves(c, ok) ==
  /\ c \in Calls /\ c.phase = "fetch"
  /\ auth' = CASE c.awaiting = "signup" /\ ok -> Awaits(c, "login", "fetch", TRUE)
               [] c.awaiting = "me" /\ ~ok ->
                    Returned(c, Failure(Str("Failed to get user info")))
               [] OTHER -> Awaits(c, c.awaiting, "body", ok)
  /\ UNCHANGED <<location, nonAuthVars>>

NetworkError == Failure(Str("Network error. Please try again."))

\* fetch() rejects: the catch block (App.js:1648-1651, 1671-1674).
AuthFetchRejects(c) ==
  /\ c \in Calls /\ c.phase = "fetch"
  /\ auth' = Returned(c, NetworkError)
  /\ UNCHANGED <<location, nonAuthVars>>

\* response.json() rejects: the same catch block.
AuthBodyUnreadable(c) ==
  /\ c \in Calls /\ c.phase = "body"
  /\ auth' = Returned(c, NetworkError)
  /\ UNCHANGED <<location, nonAuthVars>>

FailedMessage(c) ==
  IF c.awaiting = "signup" THEN Str("Signup failed") ELSE Str("Login failed")

\* AuthBodyRead storing the token when /auth/login/json has answered,
\* before /auth/me is asked.
AuthBodyReadTokenFirst(c, detail) ==
  /\ c \in Calls /\ c.phase = "body"
  /\ auth' =
       CASE ~c.ok -> Returned(c, Failure(OrElse(detail, FailedMessage(c))))
         [] c.ok /\ c.awaiting = "login" ->
              [ Awaits(c, "me", "fetch", TRUE) EXCEPT
                  !.token = AccessTokenOf(c.email),
                  !.sessionStorage.token = AccessTokenOf(c.email) ]
         [] c.ok /\ c.awaiting = "me" ->
              [ Returned(c, Success) EXCEPT
                  !.token = AccessTokenOf(c.email),
                  !.user = UserOf(c.email),
                  !.sessionStorage =
                     [ token |-> AccessTokenOf(c.email),
                       user |-> Str(JSON_stringify(UserOf(c.email))) ] ]
  /\ UNCHANGED <<location, nonAuthVars>>

\* response.json() resolves.  Of a failed login or signup it is the
\* error, whose detail may be missing (App.js:1619-1622, 1662-1665); of
\* /auth/login/json it holds the access_token, with which /auth/me is
\* asked (App.js:1624-1632); of /auth/me it is the user, and token and
\* user are set and stored (App.js:1638-1647).
AuthBodyRead(c, detail) ==
  /\ c \in Calls /\ c.phase = "body"
  /\ auth' =
       CASE ~c.ok -> Returned(c, Failure(OrElse(detail, FailedMessage(c))))
         [] c.ok /\ c.awaiting = "login" -> Awaits(c, "me", "fetch", TRUE)
         [] c.ok /\ c.awaiting = "me" ->
              [ Returned(c, Success) EXCEPT
                  !.token = AccessTokenOf(c.email),
                  !.user = UserOf(c.email),
                  !.sessionStorage =
                     [ token |-> AccessTokenOf(c.email),
                       user |-> Str(JSON_stringify(UserOf(c.email))) ] ]
  /\ UNCHANGED <<location, nonAuthVars>>

Details == { Undefined, Str("Incorrect email or password") }

LoggedOut ==
  [ auth EXCEPT !.user = Null, !.token = Null, !.sessionStorage = NoSession ]

\* logout() (App.js:1677-1682).
logout ==
  /\ auth.mounted = "ready"
  /\ auth' = LoggedOut
  /\ UNCHANGED <<location, nonAuthVars>>

\* <ProtectedRoute> that does not wait for loading to end.
ProtectedRouteNotWaiting(children) ==
  IF ~Truthy(auth.user) THEN "Navigate to /login" ELSE children

\* <ProtectedRoute> (components/ProtectedRoute.js:5-33).
ProtectedRoute(children) ==
  IF auth.loading THEN "Loading"
  ELSE IF ~Truthy(auth.user) THEN "Navigate to /login"
  ELSE children

Paths == { "/", "/login", "/signup", "/reports" }

\* What <Routes> renders for the location (App.js:13-31): "Dashboard" is
\* the protected content, "Navigate to /login" the redirecting element;
\* nothing is rendered before the first render and after React has
\* removed the tree.
Screen ==
  IF auth.mounted \in { "no", "unmounted" } THEN "nothing"
  ELSE CASE location = "/login" -> "Login"
         [] location = "/signup" -> "Signup"
         [] location = "/" -> ProtectedRoute("Dashboard")
         [] OTHER -> "Navigate to /login"

\* The address changes: a link, navigate() of Login and Signup, or the
\* address bar.
navigate(to) ==
  /\ auth.mounted = "ready"
  /\ location' = to
  /\ UNCHANGED <<auth, nonAuthVars>>

\* The effect of a rendered <Navigate to="/login" replace />.
Navigate ==
  /\ Screen = "Navigate to /login"
  /\ location' = "/login"
  /\ UNCHANGED <<auth, nonAuthVars>>

\* handleLogout, the Logout button of the dashboard (App.js:199-202, 557).
handleLogout ==
  /\ Screen = "Dashboard"
  /\ auth' = LoggedOut
  /\ location' = "/login"
  /\ UNCHANGED nonAuthVars

NextAuth ==
  \/ \E stored \in StoredSessions : AuthProvider(stored)
  \/ RestoreSession
  \/ \E email \in Emails : login(email)
  \/ \E email \in Emails : signup(email)
  \/ \E c \in Calls, ok \in BOOLEAN : AuthFetchResolves(c, ok)
  \/ \E c \in Calls : AuthFetchRejects(c)
  \/ \E c \in Calls : AuthBodyUnreadable(c)
  \/ \E c \in Calls, detail \in Details : AuthBodyRead(c, detail)
  \/ logout
  \/ \E to \in Paths : navigate(to)
  \/ Navigate
  \/ handleLogout

\* The effect of a mounted provider runs.
SpecAuth == Init /\ [][NextAuth]_vars /\ WF_vars(RestoreSession)

\* The application is on the page: rendered and not removed by React.
Mounted == auth.mounted \in { "rendered", "ready" }

C21_Routes ==
  /\ Screen = "Dashboard" =>
       location = "/" /\ ~auth.loading /\ auth.user # Null
  /\ Mounted =>
       /\ location = "/" /\ auth.loading => Screen = "Loading"
       /\ location = "/" /\ ~auth.loading /\ auth.user = Null =>
            Screen = "Navigate to /login"
       /\ location \notin { "/", "/login", "/signup" } =>
            Screen = "Navigate to /login"

C21_LogoutStep ==
  auth.user # Null /\ auth'.user = Null => Screen' # "Dashboard"

\* C21: the protected content at "/" is rendered only when the loading of
\* the session has finished and a user is present; while it is loading,
\* "/" shows the loading screen and nothing else; with no user "/"
\* redirects to /login; every path other than /login, /signup and "/"
\* redirects to /login; and once logout has cleared the user the
\* protected content is not rendered.
C21_ProtectedContent == []C21_Routes /\ [][C21_LogoutStep]_vars

\* The dashboard is shown to a user whose login was stored.
C21_Witness ==
  /\ Screen = "Dashboard"
  /\ auth.returned = Success
  /\ auth.sessionStorage.user = Str(JSON_stringify(auth.user))

\* After a login and a logout "/" redirects to /login.
C21_WitnessLoggedOut ==
  /\ location = "/" /\ auth.returned = Success /\ auth.user = Null
  /\ Screen = "Navigate to /login"

\* The state and the stored session agree, and are of one account.
C22_Together ==
  auth.mounted = "ready" =>
    /\ auth.user # Null <=> auth.token # Null
    /\ (auth.sessionStorage.user # Null /\ auth.sessionStorage.token # Null)
         <=> (auth.user # Null /\ auth.token # Null)
    /\ auth.user # Null =>
         /\ auth.token = AccessTokenOf(auth.user.email)
         /\ auth.sessionStorage =
              [ token |-> auth.token, user |-> Str(JSON_stringify(auth.user)) ]

Session == <<auth.user, auth.token, auth.sessionStorage>>

\* A step of the ready provider that changes the user, the token or the
\* stored session is the end of a login whose two requests succeeded, or
\* a logout.
C22_Step ==
  auth.mounted = "ready" /\ Session' # Session =>
    \/ \E c \in Calls :
         /\ c.awaiting = "me" /\ c.phase = "body" /\ c.ok
         /\ auth'.calls = auth.calls (-) SetToBag({c})
         /\ auth'.returned = Success
         /\ auth'.user = UserOf(c.email)
    \/ auth' = LoggedOut

\* A call that ends in failure returns { success: false, error } with a
\* message.
C22_FailureStep ==
  BagCardinality(auth'.calls) < BagCardinality(auth.calls)
    /\ auth'.returned # Success =>
      /\ auth'.returned.success = FALSE
      /\ Truthy(auth'.returned.error)
      /\ Session' = Session

C22_WitnessSignup ==
  /\ auth.user = UserOf("bob")
  /\ auth.returned = Success
  /\ \E c \in Calls : c.op = "signup" /\ c.awaiting = "me"

\* C23: after the provider has mounted, loading becomes false, whatever
\* sessionStorage holds: nothing, only one of 'token' and 'user', both
\* as a login left them, or a 'user' that is not JSON.
C23_LoadingEnds == (auth.mounted = "rendered") ~> ~auth.loading

NotJSON ==
  /\ Truthy(auth.sessionStorage.token) /\ Truthy(auth.sessionStorage.user)
  /\ JSON_parse(auth.sessionStorage.user.v).threw

\* The part of C23 that holds: loading becomes false unless both items
\* are stored and 'user' is not JSON.
C23_LoadingEndsParsed ==
  (auth.mounted = "rendered" /\ ~NotJSON) ~> ~auth.loading

\* With both items stored and a 'user' that is not JSON the provider is
\* removed with loading still true.
C23_Stuck == auth.mounted = "unmounted" /\ auth.loading /\ NotJSON

-----------------------------------------------------------------------------
(* The backend base URL (App.js:46-74, 1593)                              *)
(* A URL is a sequence of pieces: "/" and " " one character each, the    *)
(* text between them whole.                                               *)

MaxSlashes == 3       \* slashes at the end of REACT_APP_API_BASE_URL

LocalBackend == << "http:", "/", "/", "localhost:8001" >>
productionUrl == << "https:", "/", "/", "breast-cancer-backend-3aei.onrender.com" >>
OtherBackend == << "https:", "/", "/", "api.example.com" >>

localHosts == { "localhost", "127.0.0.1", "0.0.0.0" }
Hostnames == localHosts \cup { "app.example.com" }

Slashes(n) == [ i \in 1..n |-> "/" ]

\* process.env.REACT_APP_API_BASE_URL: unset, empty, blank, or a URL
\* followed by slashes, or by a slash and a space.
EnvUrls ==
  { Unset, SetTo(<< >>), SetTo(<< " " >>), SetTo(OtherBackend \o << "/", " " >>) }
    \cup { SetTo(url \o Slashes(n)) :
             url \in { LocalBackend, OtherBackend }, n \in 0..MaxSlashes }

endsWith(text, piece) == Len(text) > 0 /\ text[Len(text)] = piece
startsWith(text, piece) == Len(text) > 0 /\ text[1] = piece

RECURSIVE trimEnd(_)
trimEnd(text) ==
  IF endsWith(text, " ") THEN trimEnd(SubSeq(text, 1, Len(text) - 1)) ELSE text

RECURSIVE trimStart(_)
trimStart(text) ==
  IF startsWith(text, " ") THEN trimStart(Tail(text)) ELSE text

\* text.trim()
trim(text) == trimStart(trimEnd(text))

\* text.replace(/\/$/, "")
RemoveTrailingSlash(text) ==
  IF endsWith(text, "/") THEN SubSeq(text, 1, Len(text) - 1) ELSE text

\* getDefaultApiBase (App.js:46-68), in a browser (window is defined).
getDefaultApiBase(hostname, envUrl) ==
  IF hostname \in localHosts THEN LocalBackend
  ELSE IF envUrl.t = "set" /\ Len(envUrl.v) > 0 /\ Len(trim(envUrl.v)) > 0
    THEN RemoveTrailingSlash(envUrl.v)
  ELSE productionUrl

\* buildEndpoint (App.js:70-74)
buildEndpoint(base, endpoint) ==
  LET safeBase == IF endsWith(base, "/") THEN SubSeq(base, 1, Len(base) - 1) ELSE base
      safeEndpoint == IF startsWith(endpoint, "/") THEN endpoint ELSE << "/" >> \o endpoint
  IN  safeBase \o safeEndpoint

\* process.env.REACT_APP_API_BASE_URL || 'http://localhost:8001'
\* (App.js:1593): the empty string is the only set value that is falsy.
API_BASE_URL(envUrl) ==
  IF envUrl.t = "set" /\ Len(envUrl.v) > 0 THEN envUrl.v ELSE LocalBackend

\* The endpoints of AppContent (App.js:319, 423) and of the provider
\* (App.js:1613, 1630, 1656).
Endpoints == { << "/", "analyze" >>, << "/", "report" >> }
AuthEndpoints ==
  { << "/", "auth", "/", "login", "/", "json" >>, << "/", "auth", "/", "me" >>,
    << "/", "auth", "/", "signup" >> }

\* The bundle is loaded on a page: the module constant API_BASE_URL is
\* evaluated and AppContent memoizes apiBase (App.js:79).
PageLoads(hostname, envUrl) ==
  /\ page' = [ loaded |-> TRUE, hostname |-> hostname, env |-> envUrl,
               apiBase |-> getDefaultApiBase(hostname, envUrl),
               API_BASE_URL |-> API_BASE_URL(envUrl),
               by |-> "load", endpoint |-> << >>, url |-> << >> ]
  /\ UNCHANGED <<appVars, scriptVars, auth, location>>

\* apiUrl(endpoint) (App.js:80), the address of an /analyze or /report
\* request.
apiUrl(endpoint) ==
  /\ page.loaded
  /\ page' = [ page EXCEPT !.by = "apiUrl", !.endpoint = endpoint,
                           !.url = buildEndpoint(page.apiBase, endpoint) ]
  /\ UNCHANGED <<appVars, scriptVars, auth, location>>

\* `${API_BASE_URL}/auth/...`, the address of a request of the provider.
AuthUrl(endpoint) ==
  /\ page.loaded
  /\ page' = [ page EXCEPT !.by = "AuthProvider", !.endpoint = endpoint,
                           !.url = page.API_BASE_URL \o endpoint ]
  /\ UNCHANGED <<appVars, scriptVars, auth, location>>

NextApi ==
  \/ \E hostname \in Hostnames, envUrl \in EnvUrls : PageLoads(hostname, envUrl)
  \/ \E endpoint \in Endpoints : apiUrl(endpoint)
  \/ \E endpoint \in AuthEndpoints : AuthUrl(endpoint)

SpecApi == Init /\ [][NextApi]_vars

Blank(envUrl) == envUrl.t = "unset" \/ Len(trim(envUrl.v)) = 0

\* The part of C24 that holds: the priority of hostname, environment
\* and production URL.
C24_Priority ==
  page.loaded =>
    /\ page.hostname \in localHosts => page.apiBase = LocalBackend
    /\ page.hostname \notin localHosts /\ ~Blank(page.env) =>
         page.apiBase = RemoveTrailingSlash(page.env.v)
    /\ page.hostname \notin localHosts /\ Blank(page.env) =>
         page.apiBase = productionUrl

RECURSIVE WithoutTrailingSlashes(_)
WithoutTrailingSlashes(text) ==
  IF endsWith(text, "/")
    THEN WithoutTrailingSlashes(SubSeq(text, 1, Len(text) - 1))
    ELSE text

RECURSIVE WithoutLeadingSlashes(_)
WithoutLeadingSlashes(text) ==
  IF startsWith(text, "/") THEN WithoutLeadingSlashes(Tail(text)) ELSE text

\* The address is the base, one "/" and the path of the endpoint.
JoinedByOneSlash(url, base, endpoint) ==
  url = WithoutTrailingSlashes(base) \o << "/" >> \o WithoutLeadingSlashes(endpoint)

\* C24: the base URL is http://localhost:8001 on the hostnames localhost,
\* 127.0.0.1 and 0.0.0.0 whatever REACT_APP_API_BASE_URL is; otherwise a
\* non-blank REACT_APP_API_BASE_URL with one trailing slash removed;
\* otherwise the production URL; and the address that buildEndpoint makes
\* of the base and an endpoint has exactly one "/" between the two.
C24_ApiBase ==
  /\ C24_Priority
  /\ page.loaded /\ page.by = "apiUrl" =>
       JoinedByOneSlash(page.url, page.apiBase, page.endpoint)

\* The join holds when at most two slashes end REACT_APP_API_BASE_URL.
C24_JoinUpToTwoSlashes ==
  page.loaded /\ page.by = "apiUrl"
    /\ (page.env.t = "set" =>
          ~endsWith(RemoveTrailingSlash(RemoveTrailingSlash(page.env.v)), "/")) =>
       JoinedByOneSlash(page.url, page.apiBase, page.endpoint)

\* Two bases name the same backend when they differ in trailing slashes
\* at most.
SameBackend(a, b) == WithoutTrailingSlashes(a) = WithoutTrailingSlashes(b)

\* C25: for every hostname of the page and every REACT_APP_API_BASE_URL
\* (set, blank or unset) the requests of the provider (login, signup,
\* /auth/me) and those of the analysis (/analyze, /report) go to the same
\* backend base URL.
C25_SameBase ==
  page.loaded => SameBackend(page.apiBase, page.API_BASE_URL)

\* The part of C25 that holds: on a local hostname with the variable
\* unset or empty, and on another hostname with the variable set to a
\* URL, the two bases agree.
C25_SameBaseWhenConfigured ==
  page.loaded =>
    /\ page.hostname \in localHosts
         /\ (page.env.t = "unset" \/ Len(page.env.v) = 0) =>
            SameBackend(page.apiBase, page.API_BASE_URL)
    /\ page.hostname \notin localHosts /\ ~Blank(page.env) =>
            SameBackend(page.apiBase, page.API_BASE_URL)

\* On a deployed page without the variable the provider asks localhost
\* and the analysis the production backend.
C25_Split ==
  /\ page.loaded /\ page.hostname \notin localHosts /\ page.env = Unset
  /\ page.by = "AuthProvider"
  /\ page.API_BASE_URL = LocalBackend /\ page.apiBase = productionUrl

-----------------------------------------------------------------------------
(* Model Confidence (App.js:344-362) *)

\* The confidence of a response: absent, a fraction between 0 and 1 in
\* steps of a hundredth, or a percentage above 1 up to 100.
RawScores ==
  { Undefined }
    \cup { Num(n * (Scale \div 100)) : n \in 0..100 }
    \cup { Num(Scale + 1), Num(Scale + Scale \div 2) }
    \cup { Num(Percent(p)) : p \in 2..100 }

NextConfidence ==
  \/ Idle /\ handleFileChange(Chars("scan.png"))
  \/ handleBackToUpload
  \/ \E r \in InFlight : FetchResolves(r, TRUE)
  \/ \E r \in InFlight, raw \in RawScores :
       AnalyzeSucceeds(r, [ BackendAnalyze(r.file, Scan(Percent(82), << >>, "CC"))
                              EXCEPT !.confidence = raw ])

SpecConfidence == Init /\ [][NextConfidence]_vars

C26_WitnessKept ==
  /\ Succeeded
  /\ lastOp.data.confidence = Num(Scale + Scale \div 2)
  /\ results.confidence = results.rawScore

\* A response without confidence gives none.
C26_WitnessAbsent ==
  Succeeded /\ lastOp.data.confidence = Undefined /\ results.confidence = Null

-----------------------------------------------------------------------------
(* The Render start script (unnamed/part_003) *)

MIN_SIZE == 100000000

\* models/breast_cancer_model.keras: missing, or a file of some size.
Missing == [ t |-> "missing" ]
FileOf(size) == [ t |-> "file", size |-> size ]

\* A Git LFS pointer, sizes around the minimum, and the real model.
ModelFiles ==
  { Missing } \cup
  { FileOf(size) : size \in { 0, 134, MIN_SIZE - 1, MIN_SIZE, MIN_SIZE + 1,
                              2 * MIN_SIZE, 308000000 } }

\* [ -f "$MODEL_FILE" ]
Exists(model) == model.t = "file"

\* "${PORT:-8000}"
PortOf(env) ==
  IF env.t = "unset" THEN "8000" ELSE IF env.v = "" THEN "8000" ELSE env.v

RenderStarts(model, env) ==
  /\ render.pc = "not run"
  /\ render' = [ pc |-> "first check", initial |-> model, model |-> model,
                 PORT |-> env, downloads |-> 0, out |-> << >>,
                 status |-> 0, port |-> "" ]
  /\ UNCHANGED <<appVars, authVars, setup, startup>>

\* Lines 13-28: the file is looked for, and when it is there its size is
\* compared with MIN_SIZE by -lt.
RenderFirstCheck ==
  /\ render.pc = "first check"
  /\ render' =
       IF Exists(render.model)
         THEN IF render.model.size < MIN_SIZE
                THEN [ render EXCEPT !.pc = "download",
                         !.out = Append(Append(@, "Model file found!"), "File is too small") ]
                ELSE [ render EXCEPT !.pc = "final check",
                         !.out = Append(@, "Model file found!") ]
         ELSE [ render EXCEPT !.pc = "download",
                  !.out = Append(@, "Model file not found via Git LFS") ]
  /\ UNCHANGED <<appVars, authVars, setup, startup>>

\* python download_model.py (lines 22, 27): it leaves the file missing or
\* as it was, or writes one of some size; the script does not look at its
\* exit status.
RenderDownload(after) ==
  /\ render.pc = "download"
  /\ render' = [ render EXCEPT !.pc = "final check", !.model = after,
                   !.downloads = @ + 1 ]
  /\ UNCHANGED <<appVars, authVars, setup, startup>>

\* RenderFinalCheck that asks only whether the file is there.
RenderFinalCheckExistsOnly ==
  /\ render.pc = "final check"
  /\ render' =
       IF Exists(render.model)
         THEN [ render EXCEPT !.pc = "start", !.out = Append(@, "Model ready! Starting server...") ]
         ELSE [ render EXCEPT !.pc = "exited", !.status = 1,
                  !.out = Append(@, "ERROR: Model file not available") ]
  /\ UNCHANGED <<appVars, authVars, setup, startup>>

\* Lines 31-43: the size is compared with MIN_SIZE by -gt.
RenderFinalCheck ==
  /\ render.pc = "final check"
  /\ render' =
       IF Exists(render.model)
         THEN IF render.model.size > MIN_SIZE
                THEN [ render EXCEPT !.pc = "start",
                         !.out = Append(@, "Model ready! Starting server...") ]
                ELSE [ render EXCEPT !.pc = "exited", !.status = 1,
                         !.out = Append(@, "ERROR: Model file invalid (too small)") ]
         ELSE [ render EXCEPT !.pc = "exited", !.status = 1,
                  !.out = Append(@, "ERROR: Model file not available") ]
  /\ UNCHANGED <<appVars, authVars, setup, startup>>

\* uvicorn main:app --host 0.0.0.0 --port ${PORT:-8000}  (line 47)
RenderStartsServer ==
  /\ render.pc = "start"
  /\ render' = [ render EXCEPT !.pc = "uvicorn", !.port = PortOf(render.PORT) ]
  /\ UNCHANGED <<appVars, authVars, setup, startup>>

NextRender ==
  \/ \E model \in ModelFiles, env \in { Unset, SetTo(""), SetTo("10000") } :
       RenderStarts(model, env)
  \/ RenderFirstCheck
  \/ \E after \in ModelFiles : RenderDownload(after)
  \/ RenderFinalCheck
  \/ RenderStartsServer

SpecRender == Init /\ [][NextRender]_vars

\* The model file is there and larger than MIN_SIZE.
LargeEnough(model) == Exists(model) /\ model.size > MIN_SIZE

\* C27: the script starts uvicorn only when, after at most one download,
\* the model file exists and is larger than MIN_SIZE; otherwise it exits
\* with status 1 and does not start the server; and the download is
\* attempted exactly when the file is missing or smaller than MIN_SIZE.
C27_StartsOnlyWithModel ==
  render.pc # "not run" =>
    /\ render.downloads <= 1
    /\ render.pc \in { "start", "uvicorn" } => LargeEnough(render.model)
    /\ render.pc = "exited" =>
         /\ ~LargeEnough(render.model)
         /\ render.status = 1 /\ render.port = ""
    /\ render.pc = "download" =>
         ~Exists(render.initial) \/ render.initial.size < MIN_SIZE
    /\ render.pc \in { "final check", "start", "uvicorn", "exited" } =>
         (render.downloads = 1 <=>
            (~Exists(render.initial) \/ render.initial.size < MIN_SIZE))

\* The server runs on a model that a download put in place of a pointer.
C27_Witness ==
  /\ render.pc = "uvicorn" /\ render.downloads = 1
  /\ render.initial = FileOf(134) /\ render.model = FileOf(308000000)
  /\ render.port = "8000"

\* A download that left no file ends in exit 1.
C27_WitnessExit ==
  /\ render.pc = "exited" /\ render.downloads = 1 /\ render.status = 1
  /\ render.model = Missing

\* The first check took the file for the model: it was there and no
\* download was attempted.
FirstCheckAccepted ==
  /\ render.pc \in { "final check", "start", "uvicorn", "exited" }
  /\ Exists(render.initial) /\ render.downloads = 0

\* C28: the two size checks agree: a file that the first check accepts
\* (not below the 100 MB minimum, so no download) also passes the final
\* check and is not rejected as too small.
C28_ChecksAgree == FirstCheckAccepted => render.pc # "exited"

\* The part of C28 that holds: the checks agree on every size but
\* MIN_SIZE itself.
C28_AgreeButAtMinimum ==
  FirstCheckAccepted /\ render.initial.size # MIN_SIZE => render.pc # "exited"

\* A file of exactly MIN_SIZE bytes is not downloaded again and is
\* rejected as too small.
C28_RejectedAtMinimum ==
  /\ FirstCheckAccepted /\ render.initial = FileOf(MIN_SIZE)
  /\ render.pc = "exited"
  /\ render.out[Len(render.out)] = "ERROR: Model file invalid (too small)"

=============================================================================
